---- MODULE Spec2Model ----
(***************************************************************************)
(* Model of the Runic lexer (src/lex.go), the recursive-descent parser     *)
(* (parser.Parse and its productions) and the node tree (src/node.go).     *)
(*                                                                         *)
(* Go strings are byte strings: a string is modelled as a sequence of      *)
(* bytes, each byte written as a TLA+ string.  An ASCII byte is the        *)
(* one-character string of that character; the two bytes 0xC3 0xA9 (the    *)
(* UTF-8 encoding of the letter U+00E9) are written "C3" and "A9".  A rune *)
(* is the string of its ASCII character, "U+00E9", "U+FFFD" (RuneError),   *)
(* "eof" (-1) or "void" (-2).  Positions are 0-based byte offsets as in    *)
(* the source; sequence indices are 1-based, so byte offset i is element   *)
(* i+1.                                                                    *)
(***************************************************************************)
EXTENDS Integers, Sequences, FiniteSets, TLC

VARIABLES
    todo,             \* inputs still to be handed to Parse (the caller's program)
    source,           \* the caller's string passed to the running or last Parse call
    lexer,            \* p.lexer: the lexer record (src/lex.go lexer struct)
    nodes,            \* the heap of Node values, addressed by index (1-based); 0 is nil
    tree,             \* p.tree: index of the root node of the current parse, 0 before any
    currentNode,      \* p.currentNode
    tagDepth,         \* p.tagDepth
    collectedTokens,  \* p.collectedTokens
    tokens,           \* the slice collectTokens accumulates and returns
    stack,            \* the Go call stack of the parser: frames [fn, pc, depth]
    need,             \* TRUE while a p.nextToken() call is waiting on the lexer
    failed,           \* TRUE once a runtime panic has aborted the program
    other             \* the goroutine that is not running: what is private to it

vars == <<todo, source, lexer, nodes, tree, currentNode, tagDepth, collectedTokens,
          tokens, stack, need, failed, other>>

-----------------------------------------------------------------------------
(* Bounds of the model *)

\* longest input of single characters, counted in chunks of CharChunks
MaxLen == 3

\* longest input of inline markup, counted in chunks of TagChunks
MaxTagLen == 4

\* most lines of an input of list markup, each a line of ListLines
MaxLines == 4

\* most lines, each a line of AfterLines, after a paragraph that leaves a tag open
MaxAfterLines == 2

\* most characters of an input of EscapeChunks
MaxEscLen == 5

\* most chunks of an input of HeadingChunks
MaxHeadLen == 5

\* most characters of an input of BreakChunks
MaxBreakLen == 4

\* most lines of an input of WidthLines
MaxWidthLines == 3

-----------------------------------------------------------------------------
(* src/lex.go: constants *)

typeNone == "typeNone"
typeEOF == "typeEOF"
typeText == "typeText"
typeTerminator == "typeTerminator"
typeHeading == "typeHeading"
typeTag == "typeTag"
typeOpeningSquare == "typeOpeningSquare"
typeClosingSquare == "typeClosingSquare"
typeBulletpoint == "typeBulletpoint"

eof == "eof"
void == "void"
RuneError == "U+FFFD"
charNewline == "\n"
charDot == "."
charColon == ":"
charOpeningSquare == "["
charClosingSquare == "]"
charBackslash == "\\"
charHyphen == "-"

ctxNone == 0
ctxList == 1

\* the letter U+00E9 and the two bytes of its UTF-8 encoding
runeEAcute == "U+00E9"
byteLead == "C3"
byteCont == "A9"

-----------------------------------------------------------------------------
(* Go library functions used by the lexer *)

\* unicode.IsSpace, on the runes of the model
IsSpace(r) == r \in {" ", "\n"}

\* unicode.IsLetter, on the runes of the model
IsLetter(r) == r \in {"a", "b", "c", "d", "e", "i", "l", "o", "t", "x", runeEAcute}

\* utf8.DecodeRuneInString(s[pos:]): the rune and its width in bytes
DecodeRuneInString(s, pos) ==
    IF pos >= Len(s) THEN [r |-> RuneError, w |-> 0]
    ELSE LET b == s[pos + 1] IN
         IF b = byteLead
         THEN IF pos + 2 <= Len(s) /\ s[pos + 2] = byteCont
              THEN [r |-> runeEAcute, w |-> 2]
              ELSE [r |-> RuneError, w |-> 1]
         ELSE IF b = byteCont THEN [r |-> RuneError, w |-> 1]
         ELSE [r |-> b, w |-> 1]

\* utf8.DecodeLastRuneInString(s[:end])
DecodeLastRuneInString(s, end) ==
    IF end <= 0 THEN [r |-> RuneError, w |-> 0]
    ELSE LET b == s[end] IN
         IF b = byteCont /\ end >= 2 /\ s[end - 1] = byteLead
         THEN [r |-> runeEAcute, w |-> 2]
         ELSE IF b \in {byteLead, byteCont} THEN [r |-> RuneError, w |-> 1]
         ELSE [r |-> b, w |-> 1]

\* string(rune): the UTF-8 bytes of a rune
RuneString(r) ==
    IF r = runeEAcute THEN <<byteLead, byteCont>>
    ELSE IF r \in {RuneError, eof, void} THEN <<"EF", "BF", "BD">>
    ELSE <<r>>

-----------------------------------------------------------------------------
(* src/lex.go: the lexer *)

emptyToken == [Typ |-> typeNone, Val |-> <<>>, Line |-> 0, Pos |-> 0, indent |-> 0]

\* lex(input): a lexer initialised to process the input
lex(input) ==
    [input |-> input, line |-> 1, pos |-> 0, token |-> emptyToken, char |-> "",
     lexNext |-> "lexGlobal", skippedNewlines |-> 0, skippedSpace |-> 0,
     tag |-> <<>>, continuousNewline |-> FALSE, ctx |-> ctxNone, panic |-> FALSE]

\* the lexer of a parser on which Parse has not been called (p.lexer == nil)
noLexer == [lex(<<>>) EXCEPT !.lexNext = "nil"]

mkToken(l, typ, val) ==
    [Typ |-> typ, Val |-> val, Line |-> l.line, Pos |-> l.pos, indent |-> 0]

\* resetToken without the reset of the context
resetTokenKeepsCtx(l) ==
    [l EXCEPT !.token = emptyToken, !.continuousNewline = FALSE]

resetToken(l) ==
    [l EXCEPT !.token = emptyToken, !.continuousNewline = FALSE, !.ctx = ctxNone]

peek(l) ==
    IF l.pos = Len(l.input) THEN eof
    ELSE DecodeRuneInString(l.input, l.pos).r

peekBehind(l) ==
    IF l.pos = 0 THEN void
    ELSE IF l.pos = Len(l.input) THEN DecodeLastRuneInString(l.input, Len(l.input)).r
    ELSE DecodeLastRuneInString(l.input, l.pos - 1).r

\* index (0-based) of the first non-space byte at or after pos, Len(s) if none
RECURSIVE SkipLeadingSpace(_, _)
SkipLeadingSpace(s, pos) ==
    IF pos < Len(s) /\ IsSpace(s[pos + 1]) THEN SkipLeadingSpace(s, pos + 1) ELSE pos

\* a faulty peekNextNonSpace that never sees a bullet; C19 must reject it
peekNextNonSpaceNoBullet(l) == eof

\* first rune of strings.TrimSpace(l.input[l.pos:])
peekNextNonSpace(l) ==
    IF l.pos = Len(l.input) THEN eof
    ELSE DecodeRuneInString(l.input, SkipLeadingSpace(l.input, l.pos)).r

addToTag(l) ==
    IF l.token.Typ # typeText THEN l
    ELSE IF IsLetter(l.char) THEN [l EXCEPT !.tag = @ \o RuneString(l.char)]
    ELSE IF IsSpace(l.char) THEN [l EXCEPT !.tag = <<>>]
    ELSE l

RECURSIVE next(_), skipSpace(_)
\* next after decoding the rune d at l.pos
nextRune(l, d) ==
    [l EXCEPT !.pos = @ + d.w,
              !.line = IF d.r = charNewline THEN @ + 1 ELSE @,
              !.skippedSpace = IF d.r = charNewline THEN 0 ELSE @,
              !.char = d.r]

next(l) ==
    IF l.pos >= Len(l.input) \/ Len(l.input) = 0 THEN [l EXCEPT !.char = eof]
    ELSE skipSpace(addToTag(nextRune(l, DecodeRuneInString(l.input, l.pos))))

\* a faulty skipSpace that skips the run and leaves the buffer and the
\* character as they are; C13 must reject it
skipSpaceNoRewrite(l) ==
    IF IsSpace(l.char) /\ IsSpace(peek(l))
    THEN next([l EXCEPT !.skippedSpace = @ + 1,
                        !.skippedNewlines = IF l.char = charNewline THEN @ + 1 ELSE @])
    ELSE IF l.skippedNewlines > 0 /\ IsSpace(l.char)
    THEN [l EXCEPT !.skippedNewlines = IF l.char = charNewline THEN @ + 1 ELSE @]
    ELSE [l EXCEPT !.skippedNewlines = 0]

\* a faulty skipSpace that skips nothing; C14 must reject it
skipSpaceSkipsNothing(l) == [l EXCEPT !.skippedNewlines = 0]

\* a faulty skipSpace that writes a space where it should write the newline
skipSpaceWritesSpace(l) ==
    IF IsSpace(l.char) /\ IsSpace(peek(l))
    THEN next([l EXCEPT !.skippedSpace = @ + 1,
                        !.skippedNewlines = IF l.char = charNewline THEN @ + 1 ELSE @])
    ELSE IF l.skippedNewlines > 0 /\ IsSpace(l.char)
    THEN [l EXCEPT !.skippedNewlines = IF l.char = charNewline THEN @ + 1 ELSE @,
                   !.input = [@ EXCEPT ![l.pos] = " "],
                   !.char = charNewline]
    ELSE [l EXCEPT !.skippedNewlines = 0]

skipSpace(l) ==
    IF IsSpace(l.char) /\ IsSpace(peek(l))
    THEN next([l EXCEPT !.skippedSpace = @ + 1,
                        !.skippedNewlines = IF l.char = charNewline THEN @ + 1 ELSE @])
    ELSE IF l.skippedNewlines > 0 /\ IsSpace(l.char)
    THEN [l EXCEPT !.skippedNewlines = IF l.char = charNewline THEN @ + 1 ELSE @,
                   !.input = [@ EXCEPT ![l.pos] = charNewline],
                   !.char = charNewline]
    ELSE [l EXCEPT !.skippedNewlines = 0]

\* backup over the rune d that ends at l.pos
backupRune(l, d) ==
    [l EXCEPT !.line = IF l.char = charNewline THEN @ - 1 ELSE @,
              !.pos = @ - d.w,
              !.char = d.r]

backup(l) ==
    IF l.pos = 0 THEN [l EXCEPT !.char = void]
    ELSE backupRune(l, DecodeLastRuneInString(l.input, l.pos))

RECURSIVE nextN(_, _)
nextN(l, n) == IF n = 0 THEN l ELSE nextN(next(l), n - 1)

RECURSIVE backupN(_, _)
backupN(l, n) == IF n = 0 THEN l ELSE backupN(backup(l), n - 1)

addToToken(l, c) == [l EXCEPT !.token.Val = @ \o RuneString(c)]

\* l.token.Val[:len(l.token.Val)-n]: a negative bound is a runtime panic
truncateToken(l, n) ==
    IF n > Len(l.token.Val) THEN [l EXCEPT !.panic = TRUE]
    ELSE [l EXCEPT !.token.Val = SubSeq(@, 1, Len(@) - n)]

trimTrailingSpace(l) ==
    IF Len(l.token.Val) = 0 THEN l
    ELSE IF IsSpace(peekBehind(l))
    THEN [l EXCEPT !.token.Val = SubSeq(@, 1, Len(@) - 1)]
    ELSE l

isHeadingChar(l) == l.char = charDot \/ l.char = charColon

\* a faulty lexGlobal that emits the EOF token and keeps itself as the next
\* state function; C3 must reject it
lexGlobalCharKeepsRunning(l1) ==
    IF l1.char = eof
    THEN [l1 EXCEPT !.token = mkToken(l1, typeEOF, <<>>), !.lexNext = "lexGlobal"]
    ELSE IF IsSpace(l1.char) THEN [l1 EXCEPT !.lexNext = "lexGlobal"]
    ELSE IF l1.char = charBackslash THEN [backup(l1) EXCEPT !.lexNext = "lexText"]
    ELSE IF isHeadingChar(l1) THEN [backup(l1) EXCEPT !.lexNext = "lexHeading"]
    ELSE IF l1.char = charHyphen THEN [backup(l1) EXCEPT !.lexNext = "lexHypen"]
    ELSE [backup(l1) EXCEPT !.continuousNewline = TRUE, !.lexNext = "lexText"]

\* lexGlobal after its l.next(): the dispatch on the character read
lexGlobalChar(l1) ==
    IF l1.char = eof
    THEN [l1 EXCEPT !.token = mkToken(l1, typeEOF, <<>>), !.lexNext = "nil"]
    ELSE IF IsSpace(l1.char) THEN [l1 EXCEPT !.lexNext = "lexGlobal"]
    ELSE IF l1.char = charBackslash THEN [backup(l1) EXCEPT !.lexNext = "lexText"]
    ELSE IF isHeadingChar(l1) THEN [backup(l1) EXCEPT !.lexNext = "lexHeading"]
    ELSE IF l1.char = charHyphen THEN [backup(l1) EXCEPT !.lexNext = "lexHypen"]
    ELSE [backup(l1) EXCEPT !.continuousNewline = TRUE, !.lexNext = "lexText"]

lexGlobal(l) == lexGlobalChar(next(resetToken(l)))

\* the for loop of lexText: lexTextLoop is one iteration from its l.next(),
\* lexTextChar the body of the loop after that l.next()
RECURSIVE lexTextLoop(_), lexTextChar(_)
lexTextLoop(l) == lexTextChar(next(l))

\* l.backupN(len(l.tag)); l.truncateToken(len(l.tag)); then, unless that slice
\* expression panicked, l.trimTrailingSpace(); l.backup(); l.lexNext = l.lexTag
lexTextTag(l1) ==
    IF l1.panic THEN l1
    ELSE [backup(trimTrailingSpace(l1)) EXCEPT !.lexNext = "lexTag"]

lexTextChar(l) ==
    IF l.char = eof
    THEN [trimTrailingSpace(l) EXCEPT !.lexNext = "lexGlobal"]
    ELSE IF l.char = charBackslash /\ peek(l) # charBackslash
    THEN lexTextLoop([l EXCEPT !.tag = <<>>])
    ELSE IF peekBehind(l) = charBackslash
    THEN lexTextLoop(addToToken(l, l.char))
    ELSE IF l.char = charNewline /\ l.ctx = ctxList
    THEN IF peekNextNonSpace(l) = charHyphen
         THEN [l EXCEPT !.lexNext = "lexHypen"]
         ELSE [l EXCEPT !.lexNext = "lexTerminator"]
    ELSE IF l.char = charNewline /\ (~l.continuousNewline \/ l.skippedNewlines >= 2)
    THEN [l EXCEPT !.lexNext = "lexTerminator"]
    ELSE IF l.char = charNewline /\ l.continuousNewline
    THEN lexTextLoop(addToToken(l, " "))
    ELSE IF l.char = charOpeningSquare
    THEN IF Len(l.tag) = 0
         THEN [backup(trimTrailingSpace(l)) EXCEPT !.lexNext = "lexOpeningSquare"]
         ELSE lexTextTag(truncateToken(backupN(l, Len(l.tag)), Len(l.tag)))
    ELSE IF l.char = charClosingSquare /\ peekBehind(l) # charBackslash
    THEN [backup(trimTrailingSpace(l)) EXCEPT !.lexNext = "lexClosingSquare"]
    ELSE IF l.token.Val = <<>> /\ IsSpace(l.char)
    THEN lexTextLoop([l EXCEPT !.token = mkToken(l, typeText, <<>>)])
    ELSE lexTextLoop(addToToken(l, l.char))

\* lexText with its deferred function: an empty Text token becomes typeNone
lexTextDeferred(l1) ==
    IF l1.token.Val = <<>> THEN [l1 EXCEPT !.token.Typ = typeNone] ELSE l1

lexText(l) ==
    lexTextDeferred(lexTextLoop([l EXCEPT !.token = mkToken(l, typeText, <<>>)]))

RECURSIVE lexHeadingLoop(_), lexHeadingChar(_)
lexHeadingLoop(l) == lexHeadingChar(next(l))

\* a faulty lexHeading that never stops at three characters; C18 must reject it
lexHeadingCharNoLimit(l) ==
    IF l.char = eof THEN [l EXCEPT !.lexNext = "lexGlobal"]
    ELSE IF ~isHeadingChar(l)
    THEN [backup(l) EXCEPT !.lexNext = "lexText"]
    ELSE lexHeadingLoop([l EXCEPT !.token.Val = @ \o RuneString(l.char)])

lexHeadingChar(l) ==
    IF l.char = eof THEN [l EXCEPT !.lexNext = "lexGlobal"]
    ELSE IF ~isHeadingChar(l) \/ Len(l.token.Val) = 3
    THEN [backup(l) EXCEPT !.lexNext = "lexText"]
    ELSE lexHeadingLoop([l EXCEPT !.token.Val = @ \o RuneString(l.char)])

lexHeading(l) == lexHeadingLoop([l EXCEPT !.token = mkToken(l, typeHeading, <<>>)])

\* lexTerminator after its l.backup()
lexTerminatorToken(l1) ==
    [next([l1 EXCEPT !.token = mkToken(l1, typeTerminator, <<charNewline>>)])
        EXCEPT !.lexNext = "lexGlobal"]

lexTerminator(l) == lexTerminatorToken(backup(l))

lexTag(l) ==
    LET l1 == [l EXCEPT !.token = mkToken(l, typeTag, l.tag)] IN
    [nextN(l1, Len(l.tag)) EXCEPT !.tag = <<>>, !.lexNext = "lexOpeningSquare"]

lexOpeningSquare(l) ==
    [next([l EXCEPT !.token = mkToken(l, typeOpeningSquare, <<charOpeningSquare>>)])
        EXCEPT !.lexNext = "lexText"]

lexClosingSquare(l) ==
    [next([l EXCEPT !.token = mkToken(l, typeClosingSquare, <<charClosingSquare>>)])
        EXCEPT !.lexNext = "lexText"]

\* lexHypen after its first l.next()
lexHypenSpace(l2) ==
    [(IF IsSpace(l2.char) THEN next(l2) ELSE l2)
        EXCEPT !.ctx = ctxList, !.lexNext = "lexText"]

lexHypen(l) ==
    lexHypenSpace(next([l EXCEPT !.token = [mkToken(l, typeBulletpoint, <<charHyphen>>)
                                               EXCEPT !.indent = l.skippedSpace]]))

\* one call of the function value l.lexNext
lexStep(l) ==
    CASE l.lexNext = "lexGlobal" -> lexGlobal(l)
      [] l.lexNext = "lexText" -> lexText(l)
      [] l.lexNext = "lexHeading" -> lexHeading(l)
      [] l.lexNext = "lexTerminator" -> lexTerminator(l)
      [] l.lexNext = "lexTag" -> lexTag(l)
      [] l.lexNext = "lexOpeningSquare" -> lexOpeningSquare(l)
      [] l.lexNext = "lexClosingSquare" -> lexClosingSquare(l)
      [] l.lexNext = "lexHypen" -> lexHypen(l)

-----------------------------------------------------------------------------
(* src/node.go: the node tree *)

INDENT_WIDTH == 2

nodeRoot == "Root"
nodeError == "ERROR"
nodeHeadingOne == "HeadingOne"
nodeHeadingTwo == "HeadingTwo"
nodeHeadingThree == "HeadingThree"
nodeHeadingFour == "HeadingFour"
nodeHeadingFive == "HeadingFive"
nodeHeadingSix == "HeadingSix"
nodeParagraph == "Paragraph"
nodeText == "Text"
nodeBoldTag == "BoldTag"
nodeItalicTag == "ItalicTag"
nodeList == "List"
nodeListItem == "ListItem"

nodeHeadingOneValue == <<".">>
nodeHeadingTwoValue == <<":">>
nodeHeadingThreeValue == <<":", ".">>
nodeHeadingFourValue == <<":", ":">>
nodeHeadingFiveValue == <<":", ":", ".">>
nodeHeadingSixValue == <<":", ":", ":">>

errInvalidTag ==
    <<"I", "n", "v", "a", "l", "i", "d", " ", "t", "a", "g", " ", "n", "a", "m", "e">>
errInvalidHeading ==
    <<"I", "n", "v", "a", "l", "i", "d", " ", "h", "e", "a", "d", "i", "n", "g", " ",
      "v", "a", "l", "u", "e">>

nameBold == <<"b", "o", "l", "d">>
nameItalic == <<"i", "t", "a", "l", "i", "c">>

\* fmt.Sprintf("%s: %s", err, val)
errValue(err, val) == err \o <<":", " ">> \o val

getListItemDepth(listItem) == listItem.indent \div INDENT_WIDTH

\* &Node{Typ: typ, Val: val, parent: parent}
newNode(typ, val, parent) ==
    [Typ |-> typ, Val |-> val, Children |-> <<>>, parent |-> parent]

-----------------------------------------------------------------------------
(* the parser: helpers that call neither the lexer nor a production.  Each  *)
(* takes and returns the part of the parser state it touches:               *)
(* [nodes, currentNode].                                                    *)

\* an addNewNode that does not append the new node to its parent's Children
addNewNodeUnlinked(ns, cur, typ, val) ==
    [nodes |-> Append(ns, newNode(typ, val, cur)), currentNode |-> Len(ns) + 1]

\* p.addNewNode(typ, val) on heap ns with p.currentNode = cur (cur # nil)
addNewNode(ns, cur, typ, val) ==
    LET new == Len(ns) + 1 IN
    [nodes |-> Append([ns EXCEPT ![cur].Children = Append(@, new)],
                      newNode(typ, val, cur)),
     currentNode |-> new]

\* a returnNode that leaves the current node where it is
returnNodeStays(ns, cur) == [nodes |-> ns, currentNode |-> cur]

\* p.returnNode()
returnNode(ns, cur) == [nodes |-> ns, currentNode |-> ns[cur].parent]

\* p.previousSibling(): index of the last child of the current node, 0 for the
\* fresh empty &Node{} returned when there is none
previousSibling(ns, cur) ==
    LET n == Len(ns[cur].Children) IN
    IF n > 0 THEN ns[cur].Children[n] ELSE 0

\* a faulty parseText that always appends a new Text node; C4 must reject it
parseTextNeverMerges(ns, cur, tok) ==
    LET a == addNewNode(ns, cur, nodeText, tok.Val) IN
    returnNode(a.nodes, a.currentNode)

\* p.parseText() with the current token tok
parseText(ns, cur, tok) ==
    LET prev == previousSibling(ns, cur) IN
    IF prev # 0 /\ ns[prev].Typ = nodeText
    THEN [nodes |-> [ns EXCEPT ![prev].Val = @ \o <<" ">> \o tok.Val],
          currentNode |-> cur]
    ELSE LET a == addNewNode(ns, cur, nodeText, tok.Val) IN
         returnNode(a.nodes, a.currentNode)

\* a faulty heading table with the rows of ":." and "::" exchanged; C5 must
\* reject it
headingNodeRowsSwapped(val) ==
    CASE val = nodeHeadingOneValue -> [Typ |-> nodeHeadingOne, Val |-> nodeHeadingOneValue]
      [] val = nodeHeadingTwoValue -> [Typ |-> nodeHeadingTwo, Val |-> nodeHeadingTwoValue]
      [] val = nodeHeadingThreeValue -> [Typ |-> nodeHeadingThree, Val |-> nodeHeadingThreeValue]
      [] val = nodeHeadingFourValue -> [Typ |-> nodeHeadingFive, Val |-> nodeHeadingFourValue]
      [] val = nodeHeadingFiveValue -> [Typ |-> nodeHeadingFour, Val |-> nodeHeadingFiveValue]
      [] val = nodeHeadingSixValue -> [Typ |-> nodeHeadingSix, Val |-> nodeHeadingSixValue]
      [] OTHER -> [Typ |-> nodeError, Val |-> errValue(errInvalidHeading, val)]

\* a faulty parseHeading whose heading nodes carry no value; C26 must reject it
headingNodeEmptyValue(val) ==
    CASE val = nodeHeadingOneValue -> [Typ |-> nodeHeadingOne, Val |-> <<>>]
      [] val = nodeHeadingTwoValue -> [Typ |-> nodeHeadingTwo, Val |-> <<>>]
      [] val = nodeHeadingThreeValue -> [Typ |-> nodeHeadingThree, Val |-> <<>>]
      [] val = nodeHeadingFourValue -> [Typ |-> nodeHeadingFour, Val |-> <<>>]
      [] val = nodeHeadingFiveValue -> [Typ |-> nodeHeadingFive, Val |-> <<>>]
      [] val = nodeHeadingSixValue -> [Typ |-> nodeHeadingSix, Val |-> <<>>]
      [] OTHER -> [Typ |-> nodeError, Val |-> errValue(errInvalidHeading, val)]

\* the node kind and value parseHeading gives a Heading token value
headingNode(val) ==
    CASE val = nodeHeadingOneValue -> [Typ |-> nodeHeadingOne, Val |-> nodeHeadingOneValue]
      [] val = nodeHeadingTwoValue -> [Typ |-> nodeHeadingTwo, Val |-> nodeHeadingTwoValue]
      [] val = nodeHeadingThreeValue -> [Typ |-> nodeHeadingThree, Val |-> nodeHeadingThreeValue]
      [] val = nodeHeadingFourValue -> [Typ |-> nodeHeadingFour, Val |-> nodeHeadingFourValue]
      [] val = nodeHeadingFiveValue -> [Typ |-> nodeHeadingFive, Val |-> nodeHeadingFiveValue]
      [] val = nodeHeadingSixValue -> [Typ |-> nodeHeadingSix, Val |-> nodeHeadingSixValue]
      [] OTHER -> [Typ |-> nodeError, Val |-> errValue(errInvalidHeading, val)]

\* a faulty parseTag whose Error node loses the tag name; C7 must reject it
tagNodeDropsName(val) ==
    CASE val = nameBold -> [Typ |-> nodeBoldTag, Val |-> <<>>]
      [] val = nameItalic -> [Typ |-> nodeItalicTag, Val |-> <<>>]
      [] OTHER -> [Typ |-> nodeError, Val |-> errInvalidTag]

\* the node kind and value parseTag gives a Tag token value
tagNode(val) ==
    CASE val = nameBold -> [Typ |-> nodeBoldTag, Val |-> <<>>]
      [] val = nameItalic -> [Typ |-> nodeItalicTag, Val |-> <<>>]
      [] OTHER -> [Typ |-> nodeError, Val |-> errValue(errInvalidTag, val)]

\* a faulty parseList that leaves p.tagDepth as the item left it; C9 must
\* reject it
tagDepthAfterItemKept == tagDepth

\* p.tagDepth = 0 after p.parseListItem(): the value assigned
tagDepthAfterItem == 0

\* p.isOneOf(t...)
isOneOf(types) == lexer.token.Typ \in types

-----------------------------------------------------------------------------
(* the call stack *)

frame(fn, pc, depth) == [fn |-> fn, pc |-> pc, depth |-> depth]

top == stack[Len(stack)]

\* the running function is fn at label pc, and it is not waiting for a token
at(fn, pc) ==
    /\ ~failed /\ ~need
    /\ stack # <<>>
    /\ top.fn = fn /\ top.pc = pc

\* the running function moves to label pc
goto(pc) == [stack EXCEPT ![Len(stack)].pc = pc]

\* the running function moves to label pc and calls fn
call(pc, fn, depth) == Append(goto(pc), frame(fn, "enter", depth))

\* the running function returns
return == SubSeq(stack, 1, Len(stack) - 1)

-----------------------------------------------------------------------------
(* the inputs *)

\* the strings made of at most n chunks of the set C
RECURSIVE Strings(_, _)
Strings(C, n) ==
    IF n = 0 THEN {<<>>}
    ELSE {s \o c : s \in Strings(C, n - 1), c \in C \cup {<<>>}}

\* single characters: letters, a digit, whitespace and every character the
\* lexer treats specially, and a two-byte letter
CharChunks ==
    {<<"a">>, <<"1">>, <<" ">>, <<"\n">>, <<"[">>, <<"]">>, <<".">>, <<":">>,
     <<"-">>, <<"\\">>, <<byteLead, byteCont>>}

\* inline markup: text, a space, a blank line, a closing bracket, and a valid
\* tag name and an invalid one, each with its opening bracket (the other valid
\* name, italic, is in exampleNested)
TagChunks ==
    {<<"a">>, <<" ">>, <<"\n", "\n">>, <<"]">>,
     <<"b", "o", "l", "d", "[">>, <<"x", "[">>}

\* list markup: bullets at indent widths 0, 2 and 4, a bullet whose item opens
\* a tag, one whose item has a closing bracket, and a line of text
ListLines ==
    {<<"-", "a">>, <<" ", " ", "-", "a">>, <<" ", " ", " ", " ", "-", "a">>,
     <<"-", "x", "[", "a">>, <<"-", "a", "]">>, <<"a">>}

\* the texts of at most n lines of the set L, joined by newlines
RECURSIVE Lines(_, _)
Lines(L, n) ==
    IF n = 0 THEN {<<>>}
    ELSE L \cup {s \o <<"\n">> \o ln : s \in Lines(L, n - 1), ln \in L}

\* escapes: a letter, a space, a backslash and an opening bracket
EscapeChunks == {<<"a">>, <<" ">>, <<"\\">>, <<"[">>}

\* headings: the two heading characters, a letter and a blank line
HeadingChunks == {<<".">>, <<":">>, <<"a">>, <<"\n", "\n">>}

\* line breaks in lists: a bullet, a letter, a newline, a space and a backslash
BreakChunks == {<<"-">>, <<"a">>, <<"\n">>, <<" ">>, <<"\\">>}

\* bullets at indent widths 0, 1, 2 and 3 with empty items
WidthLines ==
    {<<"-">>, <<" ", "-">>, <<" ", " ", "-">>, <<" ", " ", " ", "-">>}

\* a paragraph that opens a tag and never closes it, and the blank line that
\* ends the paragraph
openTagParagraph == <<"x", "[", "\n", "\n">>

\* lines that follow it: headings, text, bullets, with and without brackets
AfterLines ==
    {<<".", ".", "a", "]", "a">>, <<"a", "]", "a">>, <<"-", "a", "]">>,
     <<" ", " ", "-", "a">>, <<"-", "a">>, <<"x", "[", "a", "]", "a">>}

\* the scenarios of the specification and of the test suite that the families
\* above do not reach
exampleNested ==
    <<"a", " ", "b", "o", "l", "d", "[", "b", " ", "i", "t", "a", "l", "i", "c", "[",
      "c", "]", " ", "d", "]">>

exampleInvalidHeading == <<".", ".", "\n", "a">>

\* a tag name of two-byte letters after an earlier tag
exampleTwoByteTag == <<"a", "[", byteLead, byteCont, byteLead, byteCont, "[">>

\* a heading line with a paragraph underneath
exampleHeadingParagraph == <<".", "a", "\n", "b">>

\* a heading line that opens a tag named in two-byte letters, and a text line
exampleHeadingTwoByteTag ==
    <<".", byteLead, byteCont, byteLead, byteCont, "[", "\n", "b">>

Examples ==
    {exampleNested, exampleInvalidHeading, exampleTwoByteTag,
     exampleHeadingParagraph, exampleHeadingTwoByteTag}

Inputs ==
    Strings(CharChunks, MaxLen) \cup Strings(TagChunks, MaxTagLen)
        \cup Lines(ListLines, MaxLines)
        \cup {openTagParagraph \o s : s \in Lines(AfterLines, MaxAfterLines)}
        \cup Strings(EscapeChunks, MaxEscLen)
        \cup Strings(HeadingChunks, MaxHeadLen)
        \cup Strings(BreakChunks, MaxBreakLen)
        \cup Lines(WidthLines, MaxWidthLines)
        \cup Examples

-----------------------------------------------------------------------------
(* the state after construction: New() returns &parser{} *)

\* the program has one goroutine: there is no other one to run
noOther ==
    [shared |-> TRUE, todo |-> <<>>, source |-> <<>>, stack |-> <<>>, result |-> 0,
     lexer |-> noLexer, tree |-> 0, currentNode |-> 0, tagDepth |-> 0,
     collectedTokens |-> <<>>]

Init ==
    /\ todo \in {<<i>> : i \in Inputs}
    /\ source = <<>>
    /\ lexer = noLexer
    /\ nodes = <<>>
    /\ tree = 0
    /\ currentNode = 0
    /\ tagDepth = 0
    /\ collectedTokens = <<>>
    /\ tokens = <<>>
    /\ stack = <<>>
    /\ need = FALSE
    /\ failed = FALSE
    /\ other = noOther

\* a start of parseGlobal that keeps the tagDepth of the call before
tagDepthKept == tagDepth

\* parseGlobal begins with p.tagDepth = 0
tagDepthReset == 0

-----------------------------------------------------------------------------
(* parser.Parse, up to the first p.nextToken() of parseGlobal *)

Parse ==
    /\ ~failed /\ stack = <<>> /\ todo # <<>>
    /\ todo' = Tail(todo)
    /\ source' = Head(todo)
    /\ lexer' = lex(Head(todo))
    /\ nodes' = Append(nodes, newNode(nodeRoot, <<>>, 0))
    /\ tree' = Len(nodes) + 1
    /\ currentNode' = Len(nodes) + 1
    /\ collectedTokens' = <<>>
    /\ tagDepth' = tagDepthReset
    /\ stack' = <<frame("parseGlobal", "loop", 0)>>
    /\ need' = TRUE
    /\ UNCHANGED <<tokens, failed, other>>

-----------------------------------------------------------------------------
(* lexer.nextToken, called by p.nextToken: one action per lexer state       *)
(* function.  A typeNone token makes nextToken call itself again, so the    *)
(* parser keeps waiting; any other token is appended to collectedTokens.    *)

\* the caller of nextToken is the loop of collectTokens
inCollectTokens == stack # <<>> /\ top.fn = "collectTokens"

\* the call l.lexNext() of nextToken when l.lexNext is fn, and what nextToken
\* and its caller do with the outcome: a typeNone token makes nextToken call
\* itself again; on any other token nextToken returns true, p.nextToken appends
\* the token to p.collectedTokens, and the loop of collectTokens appends it to
\* tokens and calls nextToken again
LexCall(fn) ==
    /\ ~failed /\ need
    /\ lexer.lexNext = fn
    /\ \E l \in {lexStep(lexer)} :
        /\ lexer' = l
        /\ failed' = l.panic
        /\ IF l.panic \/ l.token.Typ = typeNone
           THEN UNCHANGED <<need, collectedTokens, tokens>>
           ELSE IF inCollectTokens
           THEN /\ tokens' = Append(tokens, l.token)
                /\ UNCHANGED <<need, collectedTokens>>
           ELSE /\ need' = FALSE
                /\ collectedTokens' = Append(collectedTokens, l.token)
                /\ UNCHANGED tokens
    /\ UNCHANGED <<other, todo, source, nodes, tree, currentNode, tagDepth, stack>>

LexGlobal == LexCall("lexGlobal")
LexText == LexCall("lexText")
LexHeading == LexCall("lexHeading")
LexTerminator == LexCall("lexTerminator")
LexTag == LexCall("lexTag")
LexOpeningSquare == LexCall("lexOpeningSquare")
LexClosingSquare == LexCall("lexClosingSquare")
LexHypen == LexCall("lexHypen")

\* nextToken when l.lexNext is nil: it returns false and the token stays as it
\* is; p.nextToken appends that token again, the loop of collectTokens ends
NextTokenNil ==
    /\ ~failed /\ need
    /\ lexer.lexNext = "nil"
    /\ need' = FALSE
    /\ IF inCollectTokens
       THEN /\ stack' = return
            /\ UNCHANGED collectedTokens
       ELSE /\ collectedTokens' = Append(collectedTokens, lexer.token)
            /\ UNCHANGED stack
    /\ UNCHANGED <<other, todo, source, lexer, nodes, tree, currentNode, tagDepth, tokens,
                   failed>>

-----------------------------------------------------------------------------
(* the productions of the parser *)

\* parseGlobal: the loop condition and the switch (after a p.nextToken())
ParseGlobal ==
    /\ at("parseGlobal", "loop")
    /\ stack' =
         IF isOneOf({typeEOF}) THEN return
         ELSE IF lexer.token.Typ = typeHeading THEN call("next", "parseHeading", 0)
         ELSE IF lexer.token.Typ = typeBulletpoint THEN call("next", "parseList", 0)
         ELSE call("next", "parseParagraph", 0)
    /\ UNCHANGED <<other, todo, source, lexer, nodes, tree, currentNode, tagDepth, collectedTokens,
                   tokens, need, failed>>

\* parseGlobal: the p.nextToken() that ends the loop body
ParseGlobalNext ==
    /\ at("parseGlobal", "next")
    /\ stack' = goto("loop")
    /\ need' = TRUE
    /\ UNCHANGED <<other, todo, source, lexer, nodes, tree, currentNode, tagDepth, collectedTokens,
                   tokens, failed>>

ParseParagraph ==
    \/ /\ at("parseParagraph", "enter")
       /\ LET a == addNewNode(nodes, currentNode, nodeParagraph, <<>>) IN
            /\ nodes' = a.nodes
            /\ currentNode' = a.currentNode
       /\ stack' = call("ret", "parseRichText", 0)
       /\ UNCHANGED <<other, todo, source, lexer, tree, tagDepth, collectedTokens, tokens, need, failed>>
    \/ /\ at("parseParagraph", "ret")
       /\ currentNode' = returnNode(nodes, currentNode).currentNode
       /\ stack' = return
       /\ UNCHANGED <<other, todo, source, lexer, nodes, tree, tagDepth, collectedTokens, tokens, need, failed>>

\* parseRichText: the loop condition and the switch
ParseRichText ==
    /\ at("parseRichText", "enter") \/ at("parseRichText", "loop")
    /\ IF isOneOf({typeBulletpoint, typeTerminator, typeEOF})
       THEN /\ stack' = return
            /\ UNCHANGED <<nodes, currentNode, tagDepth, need>>
       ELSE IF lexer.token.Typ = typeText
       THEN /\ LET a == parseText(nodes, currentNode, lexer.token) IN
                 /\ nodes' = a.nodes
                 /\ currentNode' = a.currentNode
            /\ stack' = goto("loop")
            /\ need' = TRUE
            /\ UNCHANGED tagDepth
       ELSE IF lexer.token.Typ = typeTag
       THEN /\ stack' = call("afterTag", "parseTag", 0)
            /\ UNCHANGED <<nodes, currentNode, tagDepth, need>>
       ELSE IF lexer.token.Typ = typeClosingSquare /\ tagDepth > 0
       THEN /\ tagDepth' = tagDepth - 1
            /\ stack' = return
            /\ UNCHANGED <<nodes, currentNode, need>>
       ELSE /\ stack' = goto("loop")
            /\ need' = TRUE
            /\ UNCHANGED <<nodes, currentNode, tagDepth>>
    /\ UNCHANGED <<other, todo, source, lexer, tree, collectedTokens, tokens, failed>>

\* parseRichText: after p.parseTag() returns
ParseRichTextAfterTag ==
    /\ at("parseRichText", "afterTag")
    /\ IF tagDepth > 0 /\ isOneOf({typeBulletpoint, typeTerminator})
       THEN /\ stack' = return
            /\ UNCHANGED need
       ELSE /\ stack' = goto("loop")
            /\ need' = TRUE
    /\ UNCHANGED <<other, todo, source, lexer, nodes, tree, currentNode, tagDepth, collectedTokens,
                   tokens, failed>>

ParseHeading ==
    \/ /\ at("parseHeading", "enter")
       /\ LET h == headingNode(lexer.token.Val)
              a == addNewNode(nodes, currentNode, h.Typ, h.Val)
          IN /\ nodes' = a.nodes
             /\ currentNode' = a.currentNode
       /\ stack' = goto("rich")
       /\ need' = TRUE
       /\ UNCHANGED <<other, todo, source, lexer, tree, tagDepth, collectedTokens, tokens, failed>>
    \/ /\ at("parseHeading", "rich")
       /\ stack' = call("ret", "parseRichText", 0)
       /\ UNCHANGED <<other, todo, source, lexer, nodes, tree, currentNode, tagDepth, collectedTokens,
                      tokens, need, failed>>
    \/ /\ at("parseHeading", "ret")
       /\ currentNode' = returnNode(nodes, currentNode).currentNode
       /\ stack' = return
       /\ UNCHANGED <<other, todo, source, lexer, nodes, tree, tagDepth, collectedTokens, tokens, need, failed>>

ParseTag ==
    \/ /\ at("parseTag", "enter")
       /\ LET t == tagNode(lexer.token.Val)
              a == addNewNode(nodes, currentNode, t.Typ, t.Val)
          IN /\ nodes' = a.nodes
             /\ currentNode' = a.currentNode
       /\ stack' = goto("rich")
       /\ need' = TRUE
       /\ UNCHANGED <<other, todo, source, lexer, tree, tagDepth, collectedTokens, tokens, failed>>
    \/ /\ at("parseTag", "rich")
       /\ tagDepth' = tagDepth + 1
       /\ stack' = call("ret", "parseRichText", 0)
       /\ UNCHANGED <<other, todo, source, lexer, nodes, tree, currentNode, collectedTokens, tokens,
                      need, failed>>
    \/ /\ at("parseTag", "ret")
       /\ currentNode' = returnNode(nodes, currentNode).currentNode
       /\ stack' = return
       /\ UNCHANGED <<other, todo, source, lexer, nodes, tree, tagDepth, collectedTokens, tokens, need, failed>>

\* parseList(currentListDepth): the local currentListDepth is the frame's depth
ParseList ==
    \/ /\ at("parseList", "enter")
       /\ IF isOneOf({typeBulletpoint}) /\ getListItemDepth(lexer.token) < top.depth
          THEN /\ currentNode' = returnNode(nodes, currentNode).currentNode
               /\ stack' = return
               /\ UNCHANGED nodes
          ELSE /\ LET a == addNewNode(nodes, currentNode, nodeList, <<>>) IN
                    /\ nodes' = a.nodes
                    /\ currentNode' = a.currentNode
               /\ stack' = goto("loop")
       /\ UNCHANGED <<other, todo, source, lexer, tree, tagDepth, collectedTokens, tokens, need, failed>>
    \/ /\ at("parseList", "loop")
       /\ IF isOneOf({typeBulletpoint})
          THEN /\ stack' = [stack EXCEPT ![Len(stack)] =
                              frame("parseList", "item", getListItemDepth(lexer.token))]
               /\ need' = TRUE
               /\ UNCHANGED currentNode
          ELSE /\ currentNode' = returnNode(nodes, currentNode).currentNode
               /\ stack' = return
               /\ UNCHANGED need
       /\ UNCHANGED <<other, todo, source, lexer, nodes, tree, tagDepth, collectedTokens, tokens, failed>>
    \/ /\ at("parseList", "item")
       /\ stack' = call("afterItem", "parseListItem", 0)
       /\ UNCHANGED <<other, todo, source, lexer, nodes, tree, currentNode, tagDepth, collectedTokens,
                      tokens, need, failed>>
    \/ /\ at("parseList", "afterItem")
       /\ tagDepth' = tagDepthAfterItem
       /\ IF isOneOf({typeBulletpoint}) /\ getListItemDepth(lexer.token) > top.depth
          THEN /\ stack' = call("afterNested", "parseList", getListItemDepth(lexer.token))
               /\ UNCHANGED currentNode
          ELSE IF isOneOf({typeBulletpoint}) /\ getListItemDepth(lexer.token) < top.depth
          THEN /\ currentNode' = returnNode(nodes, currentNode).currentNode
               /\ stack' = return
          ELSE /\ stack' = goto("loop")
               /\ UNCHANGED currentNode
       /\ UNCHANGED <<other, todo, source, lexer, nodes, tree, collectedTokens, tokens, need, failed>>
    \/ /\ at("parseList", "afterNested")
       /\ IF isOneOf({typeBulletpoint}) /\ getListItemDepth(lexer.token) < top.depth
          THEN /\ currentNode' = returnNode(nodes, currentNode).currentNode
               /\ stack' = return
          ELSE /\ stack' = goto("loop")
               /\ UNCHANGED currentNode
       /\ UNCHANGED <<other, todo, source, lexer, nodes, tree, tagDepth, collectedTokens, tokens, need, failed>>

ParseListItem ==
    \/ /\ at("parseListItem", "enter")
       /\ LET a == addNewNode(nodes, currentNode, nodeListItem, <<>>) IN
            /\ nodes' = a.nodes
            /\ currentNode' = a.currentNode
       /\ stack' = call("ret", "parseRichText", 0)
       /\ UNCHANGED <<other, todo, source, lexer, tree, tagDepth, collectedTokens, tokens, need, failed>>
    \/ /\ at("parseListItem", "ret")
       /\ currentNode' = returnNode(nodes, currentNode).currentNode
       /\ stack' = return
       /\ UNCHANGED <<other, todo, source, lexer, nodes, tree, tagDepth, collectedTokens, tokens, need, failed>>

-----------------------------------------------------------------------------

Next ==
    \/ Parse
    \/ LexGlobal \/ LexText \/ LexHeading \/ LexTerminator \/ LexTag
    \/ LexOpeningSquare \/ LexClosingSquare \/ LexHypen \/ NextTokenNil
    \/ ParseGlobal \/ ParseGlobalNext
    \/ ParseParagraph
    \/ ParseRichText \/ ParseRichTextAfterTag
    \/ ParseHeading
    \/ ParseTag
    \/ ParseList
    \/ ParseListItem

Spec == Init /\ [][Next]_vars

-----------------------------------------------------------------------------
(* collectTokens(input): the lexer run to the end on its own *)

CollectTokens ==
    /\ ~failed /\ stack = <<>> /\ todo # <<>>
    /\ todo' = Tail(todo)
    /\ source' = Head(todo)
    /\ lexer' = lex(Head(todo))
    /\ tokens' = <<>>
    /\ stack' = <<frame("collectTokens", "loop", 0)>>
    /\ need' = TRUE
    /\ UNCHANGED <<nodes, tree, currentNode, tagDepth, collectedTokens, failed, other>>

LexNext ==
    \/ CollectTokens
    \/ LexGlobal \/ LexText \/ LexHeading \/ LexTerminator \/ LexTag
    \/ LexOpeningSquare \/ LexClosingSquare \/ LexHypen \/ NextTokenNil

LexSpec == Init /\ [][LexNext]_vars

-----------------------------------------------------------------------------
(* Observations used by the properties below *)

\* Parse has returned p.tree to its caller
Returned == ~failed /\ stack = <<>> /\ todo = <<>> /\ tree # 0

\* collectTokens has returned its slice (LexSpec)
Collected == ~failed /\ stack = <<>> /\ todo = <<>> /\ lexer.lexNext = "nil"

Last(seq) == seq[Len(seq)]

\* a p.nextToken() has just been called by the running function fn at label
\* pc, so the last collected token is the one that function was looking at
calledNextToken(fn, pc) ==
    /\ ~failed /\ need /\ stack # <<>>
    /\ top.fn = fn /\ top.pc = pc

childTyp(n, i) == nodes[nodes[n].Children[i]].Typ

\* the nested value of the subtree at node n: kind, value and child subtrees
RECURSIVE TreeOf(_)
TreeOf(n) ==
    [Typ |-> nodes[n].Typ, Val |-> nodes[n].Val,
     Children |-> [i \in 1..Len(nodes[n].Children) |-> TreeOf(nodes[n].Children[i])]]

T(typ, val, children) == [Typ |-> typ, Val |-> val, Children |-> children]

\* node a is node n or one of its ancestors
RECURSIVE IsAncestorOrSelf(_, _)
IsAncestorOrSelf(a, n) ==
    IF n = 0 THEN FALSE
    ELSE IF n = a THEN TRUE
    ELSE IsAncestorOrSelf(a, nodes[n].parent)

-----------------------------------------------------------------------------
(* Properties *)

\* C1: for every input Parse terminates and returns a tree whose root node has
\* kind Root; it never aborts with a runtime failure.
C1_ParseTotal ==
    /\ ~failed
    /\ stack = <<>> /\ todo = <<>> => tree # 0 /\ nodes[tree].Typ = nodeRoot

\* C2: driving the lexer by repeated nextToken calls never fails: no step
\* slices the token value or the buffer out of range.
C2_LexerNeverFails == ~lexer.panic

\* C3: once nextToken has produced the EOF token, every later nextToken call
\* leaves the lexer as it is, with that EOF token as its current token; the
\* EOF token is the last token of the stream, and collectTokens returns it
\* exactly once.
C3_EOFIsFinal ==
    /\ [][/\ lexer.token.Typ = typeEOF => lexer' = lexer
          /\ (tokens # <<>> /\ Last(tokens).Typ = typeEOF) => tokens' = tokens]_vars
    /\ [](\A i \in 1..Len(tokens) : tokens[i].Typ = typeEOF => i = Len(tokens))
    /\ [](Collected => tokens # <<>> /\ Last(tokens).Typ = typeEOF)

\* collectTokens has returned after a nextToken call made past the EOF token
C3_Witness ==
    /\ Collected
    /\ Len(tokens) >= 2
    /\ Last(tokens).Typ = typeEOF
    /\ lexer.token = Last(tokens)

\* C4: no node has two consecutive Text children; a Text token arriving when
\* the last child of the current node is a Text node extends that node's value
\* by one space and the token value.
C4_TextMerged ==
    /\ \A n \in 1..Len(nodes) : \A i \in 1..(Len(nodes[n].Children) - 1) :
          ~(childTyp(n, i) = nodeText /\ childTyp(n, i + 1) = nodeText)
    /\ (calledNextToken("parseRichText", "loop")
          /\ Last(collectedTokens).Typ = typeText) =>
          LET kids == nodes[currentNode].Children
              text == nodes[Last(kids)]
              val == Last(collectedTokens).Val
          IN /\ kids # <<>>
             /\ text.Typ = nodeText
             /\ \/ text.Val = val
                \/ /\ Len(text.Val) > Len(val) + 1
                   /\ SubSeq(text.Val, Len(text.Val) - Len(val), Len(text.Val))
                        = <<" ">> \o val

\* Parse has returned a tree in which two Text tokens were merged into one node
C4_Witness ==
    /\ Returned
    /\ \E n \in 1..Len(nodes) : \E i, j \in 1..Len(collectedTokens) :
          /\ i < j
          /\ collectedTokens[i].Typ = typeText
          /\ collectedTokens[j].Typ = typeText
          /\ nodes[n].Typ = nodeText
          /\ nodes[n].Val = collectedTokens[i].Val \o <<" ">> \o collectedTokens[j].Val

\* the heading table of the grammar: literal to node kind
C5_Table(val) ==
    CASE val = <<".">> -> "HeadingOne"
      [] val = <<":">> -> "HeadingTwo"
      [] val = <<":", ".">> -> "HeadingThree"
      [] val = <<":", ":">> -> "HeadingFour"
      [] val = <<":", ":", ".">> -> "HeadingFive"
      [] val = <<":", ":", ":">> -> "HeadingSix"
      [] OTHER -> "ERROR"

\* C5: the heading production maps the Heading token's value to the node kind
\* by exact lookup in the table, the node value being that literal; every other
\* string of 1 to 3 heading characters gives an Error node, never a heading.
C5_HeadingTable ==
    calledNextToken("parseHeading", "rich") =>
        LET tok == Last(collectedTokens)
            node == nodes[currentNode]
        IN /\ tok.Typ = typeHeading
           /\ Len(tok.Val) \in 1..3
           /\ \A i \in 1..Len(tok.Val) : tok.Val[i] \in {".", ":"}
           /\ node.Typ = C5_Table(tok.Val)
           /\ node.Typ # "ERROR" => node.Val = tok.Val

\* Parse has returned a tree with a level-five heading
C5_Witness ==
    /\ Returned
    /\ \E n \in 1..Len(nodes) : nodes[n].Typ = nodeHeadingFive /\ nodes[n].Val = <<":", ":", ".">>

\* C6: a Heading token whose value is not in the table gives an Error node
\* that keeps the literal; the rich text that follows on the same line becomes
\* the children of that node, and the content after the Terminator is parsed as
\* the next top-level node.
C6_InvalidHeading ==
    /\ (calledNextToken("parseHeading", "rich")
          /\ C5_Table(Last(collectedTokens).Val) = "ERROR") =>
          /\ nodes[currentNode].Typ = nodeError
          /\ nodes[currentNode].Val
               = errInvalidHeading \o <<":", " ">> \o Last(collectedTokens).Val
          /\ nodes[currentNode].parent = tree
    \* the heading's rich text runs to the end of its line
    /\ (at("parseHeading", "ret") /\ nodes[currentNode].Typ = nodeError) =>
          lexer.token.Typ \in {typeTerminator, typeEOF}
    \* what comes next is added to the root
    /\ (~failed /\ stack # <<>> /\ top.fn = "parseGlobal") => currentNode = tree
    /\ (Returned /\ source = exampleInvalidHeading) =>
          TreeOf(tree) =
            T(nodeRoot, <<>>,
              <<T(nodeError, errInvalidHeading \o <<":", " ", ".", ".">>, <<>>),
                T(nodeParagraph, <<>>, <<T(nodeText, <<"a">>, <<>>)>>)>>)

-----------------------------------------------------------------------------
(* tag nodes and Tag tokens of one Parse call, in order *)

HasPrefix(val, prefix) ==
    Len(val) >= Len(prefix) /\ SubSeq(val, 1, Len(prefix)) = prefix

\* node n was made by parseTag
IsTagNode(n) ==
    \/ nodes[n].Typ \in {nodeBoldTag, nodeItalicTag}
    \/ nodes[n].Typ = nodeError /\ HasPrefix(nodes[n].Val, errInvalidTag)

\* the k-th smallest element of a set of numbers
NthOf(S, k) == CHOOSE i \in S : Cardinality({j \in S : j <= i}) = k

TagTokens == {i \in 1..Len(collectedTokens) : collectedTokens[i].Typ = typeTag}
TagNodes == {n \in 1..Len(nodes) : IsTagNode(n)}

\* two texts joined by one space, an empty text joining as nothing
JoinSp(x, y) == IF x = <<>> THEN y ELSE IF y = <<>> THEN x ELSE x \o <<" ">> \o y

\* the values of the Text tokens at indices k..(b - 1), joined by spaces
RECURSIVE TextsBetween(_, _)
TextsBetween(k, b) ==
    IF k >= b THEN <<>>
    ELSE IF collectedTokens[k].Typ = typeText
    THEN JoinSp(collectedTokens[k].Val, TextsBetween(k + 1, b))
    ELSE TextsBetween(k + 1, b)

\* the values of the Text nodes of the subtree at n, in order, joined by spaces
RECURSIVE FlattenText(_), FlattenKids(_, _)
FlattenText(n) ==
    IF nodes[n].Typ = nodeText THEN nodes[n].Val ELSE FlattenKids(nodes[n].Children, 1)
FlattenKids(kids, i) ==
    IF i > Len(kids) THEN <<>>
    ELSE JoinSp(FlattenText(kids[i]), FlattenKids(kids, i + 1))

\* scanning the tokens from index k with d tags open: the index of the token
\* that ends the content of the outermost of them, which is its matching
\* ClosingSquare or the Bulletpoint, Terminator or EOF that ends the run
RECURSIVE ContentEnd(_, _)
ContentEnd(k, d) ==
    IF k > Len(collectedTokens) THEN k
    ELSE LET typ == collectedTokens[k].Typ IN
         IF typ \in {typeBulletpoint, typeTerminator, typeEOF} THEN k
         ELSE IF typ = typeTag THEN ContentEnd(k + 1, d + 1)
         ELSE IF typ = typeClosingSquare
         THEN IF d = 1 THEN k ELSE ContentEnd(k + 1, d - 1)
         ELSE ContentEnd(k + 1, d)

\* the position of child c among the children of its parent
ChildIndex(c) ==
    CHOOSE i \in 1..Len(nodes[nodes[c].parent].Children) :
        nodes[nodes[c].parent].Children[i] = c

\* C7: a Tag token whose name is neither bold nor italic gives an Error node
\* that keeps the name, and is handled like a valid tag: the opening bracket is
\* consumed, the content up to the matching ']' becomes the children of the
\* Error node, and what follows the ']' is appended to the enclosing node.
C7_InvalidTag ==
    Returned =>
      /\ Cardinality(TagNodes) = Cardinality(TagTokens)
      /\ \A k \in 1..Cardinality(TagTokens) :
           LET i == NthOf(TagTokens, k)
               E == NthOf(TagNodes, k)
               e == ContentEnd(i + 2, 1)
               name == collectedTokens[i].Val
           IN name \notin {nameBold, nameItalic} =>
                /\ nodes[E].Typ = nodeError
                /\ nodes[E].Val = errInvalidTag \o <<":", " ">> \o name
                /\ collectedTokens[i + 1].Typ = typeOpeningSquare
                /\ FlattenText(E) = TextsBetween(i + 2, e)
                /\ (/\ e < Len(collectedTokens)
                    /\ collectedTokens[e].Typ = typeClosingSquare
                    /\ collectedTokens[e + 1].Typ = typeText) =>
                      LET P == nodes[E].parent
                          x == ChildIndex(E)
                      IN /\ x < Len(nodes[P].Children)
                         /\ childTyp(P, x + 1) = nodeText
                         /\ HasPrefix(nodes[nodes[P].Children[x + 1]].Val,
                                      collectedTokens[e + 1].Val)

exampleInvalidTag == <<"x", "[", "a", "]", "a">>

\* Parse has returned the tree of an invalid tag with content and text after it
C7_Witness ==
    /\ Returned
    /\ source = exampleInvalidTag
    /\ TreeOf(tree) =
         T(nodeRoot, <<>>,
           <<T(nodeParagraph, <<>>,
               <<T(nodeError, errInvalidTag \o <<":", " ", "x">>,
                   <<T(nodeText, <<"a">>, <<>>)>>),
                 T(nodeText, <<"a">>, <<>>)>>)>>)

\* C8: each ClosingSquare met at tag depth > 0 closes the most recently opened
\* still-open tag, so the current node is then a tag node and what follows is
\* appended to that tag's parent; the depth is back at its starting value when
\* the run ends.
C8_ClosingSquareClosesTag ==
    /\ ((at("parseRichText", "enter") \/ at("parseRichText", "loop"))
          /\ lexer.token.Typ = typeClosingSquare
          /\ tagDepth > 0) => IsTagNode(currentNode)
    /\ (Returned /\ source = exampleNested) =>
          /\ tagDepth = 0
          /\ TreeOf(tree) =
               T(nodeRoot, <<>>,
                 <<T(nodeParagraph, <<>>,
                     <<T(nodeText, <<"a">>, <<>>),
                       T(nodeBoldTag, <<>>,
                         <<T(nodeText, <<"b">>, <<>>),
                           T(nodeItalicTag, <<>>, <<T(nodeText, <<"c">>, <<>>)>>),
                           T(nodeText, <<"d">>, <<>>)>>)>>)>>)

-----------------------------------------------------------------------------
(* list items and the Bulletpoint tokens that start them *)

\* the index of the last Bulletpoint token before index j, 0 when there is none
BulletBefore(j) ==
    LET S == {i \in 1..(j - 1) : collectedTokens[i].Typ = typeBulletpoint} IN
    IF S = {} THEN 0 ELSE CHOOSE i \in S : \A k \in S : k <= i

\* the last ListItem node made before node J, 0 when there is none
ItemBefore(J) ==
    LET S == {n \in 1..(J - 1) : nodes[n].Typ = nodeListItem} IN
    IF S = {} THEN 0 ELSE CHOOSE n \in S : \A k \in S : k <= n

NoTerminatorBetween(i, j) ==
    \A k \in i..j : collectedTokens[k].Typ # typeTerminator

\* the number of tags still open after the tokens at indices k..(b - 1), d of
\* them open before; a ClosingSquare with no tag open closes nothing
RECURSIVE OpenTags(_, _, _)
OpenTags(k, b, d) ==
    IF k >= b THEN d
    ELSE IF collectedTokens[k].Typ = typeTag THEN OpenTags(k + 1, b, d + 1)
    ELSE IF collectedTokens[k].Typ = typeClosingSquare /\ d > 0
    THEN OpenTags(k + 1, b, d - 1)
    ELSE OpenTags(k + 1, b, d)

\* parseListItem has made its ListItem node, the current node, and its rich
\* text is about to start; the token before the current one is its bullet
atItemStart ==
    /\ at("parseRichText", "enter")
    /\ Len(stack) >= 2
    /\ stack[Len(stack) - 1].fn = "parseListItem"

\* the rich text of a list item, or of a tag within it, is at a ClosingSquare
atClosingSquareInItem ==
    /\ at("parseRichText", "enter") \/ at("parseRichText", "loop")
    /\ lexer.token.Typ = typeClosingSquare
    /\ \E k \in DOMAIN stack : stack[k].fn = "parseListItem"

\* the item boundary of C9: I is the item whose tags were left open, J the next
\* item.  sameDepthOnly limits the statement that J is the next sibling of I to
\* bullets of equal depth.
C9_ItemBoundary(sameDepthOnly) ==
    /\ atItemStart =>
         LET j == Len(collectedTokens) - 1
             i == BulletBefore(j)
             J == currentNode
             I == ItemBefore(J)
         IN (/\ i # 0 /\ I # 0
             /\ NoTerminatorBetween(i, j)
             /\ OpenTags(i + 1, j, 0) > 0) =>
               \* the item and the tags in it are closed: J is outside them
               /\ ~IsAncestorOrSelf(I, J)
               \* the tag nodes of the item hold the content of the item only
               /\ \A n \in TagNodes : (I < n /\ n < J) => IsAncestorOrSelf(I, n)
               /\ FlattenText(I) = TextsBetween(i + 1, j)
               /\ tagDepth = 0
               /\ (sameDepthOnly =>
                     getListItemDepth(collectedTokens[j])
                       = getListItemDepth(collectedTokens[i])) =>
                     /\ nodes[J].parent = nodes[I].parent
                     /\ ChildIndex(J) = ChildIndex(I) + 1
    \* a ']' in the next item meets only the tags that item opened
    /\ atClosingSquareInItem =>
         LET j == BulletBefore(Len(collectedTokens) + 1)
             i == BulletBefore(j)
         IN (/\ i # 0
             /\ NoTerminatorBetween(i, j)
             /\ OpenTags(i + 1, j, 0) > 0) =>
               tagDepth = Cardinality({k \in DOMAIN stack : stack[k].fn = "parseTag"})

exampleOpenTagItems == <<"-", "x", "[", "a", "\n", "-", "a", "]">>

exampleBullets == <<"-", "a", "\n", " ", " ", "-", "a", "\n", "-", "a">>

\* C10: after a list item, a next bullet of strictly greater depth opens
\* exactly one nested List, appended as the next child of the current List
\* after the ListItem, however much deeper it is; a bullet of equal depth
\* appends a ListItem to the same List.  Bullets at widths 0, 2, 0 give
\* List[ListItem, List[ListItem], ListItem].
C10_NestedList ==
    /\ atItemStart =>
         LET j == Len(collectedTokens) - 1
             i == BulletBefore(j)
             J == currentNode
             I == ItemBefore(J)
         IN (i # 0 /\ I # 0 /\ NoTerminatorBetween(i, j)) =>
              LET dI == getListItemDepth(collectedTokens[i])
                  dJ == getListItemDepth(collectedTokens[j])
                  N == nodes[J].parent
              IN /\ dJ > dI =>
                      /\ nodes[N].Typ = nodeList
                      /\ nodes[N].Children = <<J>>
                      /\ nodes[N].parent = nodes[I].parent
                      /\ ChildIndex(N) = ChildIndex(I) + 1
                 /\ dJ = dI =>
                      /\ N = nodes[I].parent
                      /\ ChildIndex(J) = ChildIndex(I) + 1
    /\ (Returned /\ source = exampleBullets) =>
          TreeOf(tree) =
            T(nodeRoot, <<>>,
              <<T(nodeList, <<>>,
                  <<T(nodeListItem, <<>>, <<T(nodeText, <<"a">>, <<>>)>>),
                    T(nodeList, <<>>,
                      <<T(nodeListItem, <<>>, <<T(nodeText, <<"a">>, <<>>)>>)>>),
                    T(nodeListItem, <<>>, <<T(nodeText, <<"a">>, <<>>)>>)>>)>>)

-----------------------------------------------------------------------------

ListItemNodes == {n \in 1..Len(nodes) : nodes[n].Typ = nodeListItem}

BulletTokens ==
    {i \in 1..Len(collectedTokens) : collectedTokens[i].Typ = typeBulletpoint}

\* C11: no Bulletpoint token is discarded: a bullet shallower than the list
\* being built closes lists until one accepts it and becomes a ListItem, so the
\* tree has as many ListItem nodes as there are Bulletpoint tokens, and no
\* Paragraph starts with the text of a bullet.
C11_NoBulletDiscarded ==
    /\ Returned => Cardinality(ListItemNodes) = Cardinality(BulletTokens)
    /\ (at("parseParagraph", "enter") /\ Len(collectedTokens) >= 2) =>
          collectedTokens[Len(collectedTokens) - 1].Typ # typeBulletpoint

-----------------------------------------------------------------------------
(* plain text: what the grammar says of letters, digits, spaces and newlines *)

IsWhitespace(c) == c \in {" ", "\n"}

\* the source is plain text: letters, digits, spaces, newlines and backslashes,
\* no backslash standing before whitespace
IsPlainText(s) ==
    /\ \A i \in 1..Len(s) : s[i] \in {"a", "1", " ", "\n", "\\"}
    /\ \A i \in 1..(Len(s) - 1) : s[i] = "\\" => ~IsWhitespace(s[i + 1])

\* 1 when a whitespace run with nl newlines, standing after text, is a
\* paragraph break
BreakAfter(seenText, nl) == IF seenText /\ nl >= 2 THEN 1 ELSE 0

\* the number of whitespace runs of s[i..] that follow text and hold two or more
\* newlines; nl counts the newlines of the run that reaches index i
RECURSIVE HardBreaks(_, _, _, _)
HardBreaks(s, i, nl, seenText) ==
    IF i > Len(s) THEN BreakAfter(seenText, nl)
    ELSE IF IsWhitespace(s[i])
    THEN HardBreaks(s, i + 1, IF s[i] = "\n" THEN nl + 1 ELSE nl, seenText)
    ELSE BreakAfter(seenText, nl) + HardBreaks(s, i + 1, 0, TRUE)

\* the tokens, as <<type, value>>, the grammar gives plain text without
\* backslashes: cur is the paragraph text so far, ws and nl describe the
\* whitespace run that reaches index i
RECURSIVE PlainTokens(_, _, _, _, _)
PlainTokens(s, i, cur, ws, nl) ==
    IF i > Len(s)
    THEN (IF cur = <<>> THEN <<>> ELSE <<(<<typeText, cur>>)>>)
         \o (IF cur # <<>> /\ nl >= 2 THEN <<(<<typeTerminator, <<"\n">>>>)>> ELSE <<>>)
         \o <<(<<typeEOF, <<>>>>)>>
    ELSE IF IsWhitespace(s[i])
    THEN PlainTokens(s, i + 1, cur, TRUE, IF s[i] = "\n" THEN nl + 1 ELSE nl)
    ELSE IF cur = <<>> THEN PlainTokens(s, i + 1, <<s[i]>>, FALSE, 0)
    ELSE IF ~ws THEN PlainTokens(s, i + 1, Append(cur, s[i]), FALSE, 0)
    ELSE IF nl >= 2
    THEN <<(<<typeText, cur>>), (<<typeTerminator, <<"\n">>>>)>>
         \o PlainTokens(s, i + 1, <<s[i]>>, FALSE, 0)
    ELSE PlainTokens(s, i + 1, cur \o <<" ", s[i]>>, FALSE, 0)

TypVal(toks) == [i \in 1..Len(toks) |-> <<toks[i].Typ, toks[i].Val>>]

TerminatorTokens == {i \in 1..Len(tokens) : tokens[i].Typ = typeTerminator}

\* C12: in a text run that begins a paragraph, whatever its first character, a
\* whitespace run ends the Text token with a Terminator if and only if it holds
\* two or more newlines; a run with exactly one newline adds a single space to
\* the same Text token.
C12_SoftBreak ==
    (Collected /\ IsPlainText(source)) =>
        /\ Cardinality(TerminatorTokens) = HardBreaks(source, 1, 0, FALSE)
        /\ (\A i \in 1..Len(source) : source[i] # "\\") =>
              TypVal(tokens) = PlainTokens(source, 1, <<>>, FALSE, 0)

-----------------------------------------------------------------------------
(* whitespace runs of a buffer *)

\* the index of the last character of the whitespace run of s that holds index i
RECURSIVE RunEnd(_, _)
RunEnd(s, i) == IF i < Len(s) /\ IsWhitespace(s[i + 1]) THEN RunEnd(s, i + 1) ELSE i

\* the maximal runs <<i, j>> of two or more whitespace characters of s that
\* hold a newline
NewlineRuns(s) ==
    {r \in {<<i, RunEnd(s, i)>> : i \in {k \in 1..Len(s) :
                /\ IsWhitespace(s[k])
                /\ k = 1 \/ ~IsWhitespace(s[k - 1])}} :
        /\ r[2] > r[1]
        /\ \E k \in r[1]..r[2] : s[k] = "\n"}

\* the lexer stands before a run of two or more whitespace characters of its
\* buffer that holds a newline; the value is the index of the end of that run,
\* 0 when it does not
RunAhead(l) ==
    IF /\ l.pos < Len(l.input)
       /\ IsWhitespace(l.input[l.pos + 1])
       /\ RunEnd(l.input, l.pos + 1) > l.pos + 1
       /\ \E k \in (l.pos + 1)..RunEnd(l.input, l.pos + 1) : l.input[k] = "\n"
    THEN RunEnd(l.input, l.pos + 1)
    ELSE 0

\* one l.next() before such a run consumes the run and delivers one newline,
\* and so does reading that position again after l.backup()
DeliversOneNewline(l) ==
    RunAhead(l) # 0 =>
        LET n == next(l)
            again == next(backup(n))
        IN /\ n.char = charNewline
           /\ n.pos = RunAhead(l)
           /\ again.char = charNewline
           /\ again.pos = n.pos
           /\ again.input = n.input

\* C13 (as stated): after lexing, every maximal run of two or more whitespace
\* characters that holds a newline is represented by exactly one newline
\* character in the buffer l.input; the lexer delivers exactly one newline for
\* the run, and a re-read after backup never delivers more.
C13_OneNewlineInBuffer ==
    /\ Collected =>
          \A r \in NewlineRuns(source) :
              Cardinality({k \in r[1]..r[2] : lexer.input[k] = "\n"}) = 1
    /\ lexer.lexNext # "nil" => DeliversOneNewline(lexer)

\* C13 (amended): after lexing, the buffer has the length of the input and
\* differs from it only in the last character of every such run, which is a
\* newline; one l.next() consumes the run and delivers exactly one newline, and
\* a re-read after backup delivers that newline again and no more.
C13_RunEndsInNewline ==
    /\ Collected =>
          /\ Len(lexer.input) = Len(source)
          /\ \A r \in NewlineRuns(source) : lexer.input[r[2]] = "\n"
          /\ \A k \in 1..Len(source) :
                (\A r \in NewlineRuns(source) : r[2] # k) => lexer.input[k] = source[k]
    /\ lexer.lexNext # "nil" => DeliversOneNewline(lexer)

\* collectTokens has returned, the buffer rewritten at the end of a run, and
\* the run was consumed from a token boundary
C13_Witness ==
    /\ Collected
    /\ lexer.input # source
    /\ \E r \in NewlineRuns(source) : source[r[2]] = " " /\ lexer.input[r[2]] = "\n"

-----------------------------------------------------------------------------

\* no two consecutive characters of val are whitespace
NoDoubleWhitespace(val) ==
    \A i \in 1..(Len(val) - 1) : ~(IsWhitespace(val[i]) /\ IsWhitespace(val[i + 1]))

\* letters, digits and spaces only
IsWords(s) == \A i \in 1..Len(s) : s[i] \in {"a", "1", " "}

\* what both readings of C14 share: words separated by runs of spaces lex to
\* one Text token holding the words, one space between two of them
C14_Words ==
    (Collected /\ IsWords(source)) =>
        TypVal(tokens) = PlainTokens(source, 1, <<>>, FALSE, 0)

\* C14 (as stated): in every Text token value a run of two or more spaces of
\* the input appears as exactly one space, and a Text token value never holds
\* two consecutive whitespace characters.
C14_NoDoubleWhitespace ==
    /\ C14_Words
    /\ Collected =>
          \A i \in 1..Len(tokens) :
              tokens[i].Typ = typeText => NoDoubleWhitespace(tokens[i].Val)

\* C14 (amended): the same, for inputs in which no whitespace character is
\* escaped by a backslash standing before it.
C14_NoDoubleWhitespaceUnescaped ==
    /\ C14_Words
    /\ (Collected /\ \A k \in 1..(Len(source) - 1) :
                        source[k] = "\\" => ~IsWhitespace(source[k + 1])) =>
          \A i \in 1..Len(tokens) :
              tokens[i].Typ = typeText => NoDoubleWhitespace(tokens[i].Val)

\* collectTokens has returned a Text token in which a run of spaces of the
\* input is one space
C14_Witness ==
    /\ Collected
    /\ source = <<"a", " ", " ", " ", "a">>
    /\ TypVal(tokens) = <<(<<typeText, <<"a", " ", "a">>>>), (<<typeEOF, <<>>>>)>>

-----------------------------------------------------------------------------
(* escapes *)

\* the indices of the characters of s that stand right after a single
\* backslash and are one of the characters of set
EscapedAt(s, set) ==
    {i \in 2..Len(s) :
        /\ s[i] \in set
        /\ s[i - 1] = "\\"
        /\ i = 2 \/ s[i - 2] # "\\"}

\* how many of the characters of seq are c
RECURSIVE CountIn(_, _)
CountIn(seq, c) ==
    IF seq = <<>> THEN 0
    ELSE (IF seq[1] = c THEN 1 ELSE 0) + CountIn(SubSeq(seq, 2, Len(seq)), c)

\* how many of the characters of the Text token values are c
RECURSIVE CountInTexts(_, _, _)
CountInTexts(toks, i, c) ==
    IF i > Len(toks) THEN 0
    ELSE (IF toks[i].Typ = typeText THEN CountIn(toks[i].Val, c) ELSE 0)
         + CountInTexts(toks, i + 1, c)

NoDoubledBackslash(s) == \A i \in 1..(Len(s) - 1) : ~(s[i] = "\\" /\ s[i + 1] = "\\")

\* C15: a '[', ']', '.' or ':' right after a single backslash is literal text
\* at every position of the input, the last one included: no OpeningSquare,
\* ClosingSquare, Tag or Heading token is emitted for it, the character is
\* appended to the Text token value and the backslash is not.
C15_EscapedIsLiteral ==
    (Collected /\ NoDoubledBackslash(source)) =>
        /\ \A i \in EscapedAt(source, {"[", "]", ".", ":"}) :
              \A k \in 1..Len(tokens) :
                  tokens[k].Typ \in {typeOpeningSquare, typeClosingSquare, typeHeading}
                      => tokens[k].Pos # i - 1
        /\ \A c \in {"[", "]"} :
              CountInTexts(tokens, 1, c) = Cardinality(EscapedAt(source, {c}))
        /\ CountInTexts(tokens, 1, "\\") = 0

\* the number of consecutive backslashes of s from index i on
RECURSIVE BackslashRun(_, _)
BackslashRun(s, i) ==
    IF i > Len(s) \/ s[i] # "\\" THEN 0 ELSE 1 + BackslashRun(s, i + 1)

\* every maximal run of backslashes of s is made of pairs
OnlyDoubledBackslashes(s) ==
    \A i \in 1..Len(s) :
        (s[i] = "\\" /\ (i = 1 \/ s[i - 1] # "\\")) => BackslashRun(s, i) % 2 = 0

\* the indices of the brackets of s that stand right after one pair of
\* backslashes
AfterPair(s) ==
    {i \in 3..Len(s) :
        /\ s[i] \in {"[", "]"}
        /\ s[i - 1] = "\\" /\ s[i - 2] = "\\"
        /\ i = 3 \/ s[i - 3] # "\\"}

\* C16: every doubled backslash yields exactly one backslash in the Text token
\* values (2n consecutive backslashes contribute n), and the character after
\* the pair keeps its unescaped meaning: a bracket there is a bracket token.
C16_DoubledBackslash ==
    Collected =>
        /\ OnlyDoubledBackslashes(source) =>
              2 * CountInTexts(tokens, 1, "\\") = CountIn(source, "\\")
        /\ \A i \in AfterPair(source) :
              \E k \in 1..Len(tokens) :
                  /\ tokens[k].Typ = (IF source[i] = "[" THEN typeOpeningSquare
                                      ELSE typeClosingSquare)
                  /\ tokens[k].Pos = i - 1

-----------------------------------------------------------------------------
(* tag names *)

\* a byte of a letter of the model
IsLetterByte(b) == IsLetter(b) \/ b \in {byteLead, byteCont}

\* the contiguous letters of s that end at index i (empty when s[i] is not
\* a letter)
RECURSIVE LettersEndingAt(_, _)
LettersEndingAt(s, i) ==
    IF i < 1 \/ ~IsLetterByte(s[i]) THEN <<>>
    ELSE LettersEndingAt(s, i - 1) \o <<s[i]>>

OpeningSquareTokens ==
    {k \in 1..Len(tokens) : tokens[k].Typ = typeOpeningSquare}

\* C17: an OpeningSquare token is preceded by a Tag token exactly when letters
\* stand immediately before its '['; the Tag value is exactly that contiguous
\* sequence of letters and the Tag token starts where the sequence starts; a
\* Text token before the Tag is trimmed.
C17_TagIsPrecedingLetters ==
    Collected =>
        \A k \in OpeningSquareTokens :
            LET name == LettersEndingAt(source, tokens[k].Pos) IN
            IF name = <<>>
            THEN k = 1 \/ tokens[k - 1].Typ # typeTag
            ELSE /\ k > 1
                 /\ tokens[k - 1].Typ = typeTag
                 /\ tokens[k - 1].Val = name
                 /\ tokens[k - 1].Pos = tokens[k].Pos - Len(name)
                 /\ (k > 2 /\ tokens[k - 2].Typ = typeText) =>
                        ~IsSpace(Last(tokens[k - 2].Val))

-----------------------------------------------------------------------------
(* headings *)

HeadingTokens == {k \in 1..Len(tokens) : tokens[k].Typ = typeHeading}

\* the maximal run of '.' and ':' of s from index i on
RECURSIVE HeadingRun(_, _)
HeadingRun(s, i) ==
    IF i > Len(s) \/ s[i] \notin {charDot, charColon} THEN <<>>
    ELSE <<s[i]>> \o HeadingRun(s, i + 1)

FirstN(seq, n) == SubSeq(seq, 1, IF Len(seq) < n THEN Len(seq) ELSE n)

\* C18: a Heading token stands at the start of a text run: it is the first
\* token, after nothing but whitespace, or the token after a Terminator; its
\* value is the maximal run of '.' and ':' at its position cut to three
\* characters, and a fourth one is the first character of the Text token that
\* follows.
C18_HeadingAtRunStart ==
    Collected =>
        \A k \in HeadingTokens :
            LET pos == tokens[k].Pos
                run == HeadingRun(source, pos + 1)
            IN /\ IF k = 1 THEN \A i \in 1..pos : IsSpace(source[i])
                  ELSE tokens[k - 1].Typ = typeTerminator
               /\ run # <<>>
               /\ tokens[k].Val = FirstN(run, 3)
               /\ Len(run) > 3 =>
                     /\ tokens[k + 1].Typ = typeText
                     /\ tokens[k + 1].Pos = pos + 3
                     /\ tokens[k + 1].Val[1] = run[4]

\* a heading of more than three characters with its Text token has been lexed
C18_Witness ==
    /\ Collected
    /\ \E k \in HeadingTokens :
          /\ Len(HeadingRun(source, tokens[k].Pos + 1)) > 3
          /\ Len(tokens[k].Val) = 3
          /\ tokens[k + 1].Typ = typeText

-----------------------------------------------------------------------------
(* newlines in list context *)

BulletpointTokens == {k \in 1..Len(tokens) : tokens[k].Typ = typeBulletpoint}

\* the character at byte offset n of the input belongs to a list: a
\* Bulletpoint token starts before it and no Terminator token lies between
InList(n) ==
    \E j \in BulletpointTokens :
        /\ tokens[j].Pos < n
        /\ \A t \in TerminatorTokens : ~(tokens[j].Pos < tokens[t].Pos /\ tokens[t].Pos < n)

\* the index of the first character of the whitespace run of s that holds index i
RECURSIVE RunStart(_, _)
RunStart(s, i) == IF i > 1 /\ IsWhitespace(s[i - 1]) THEN RunStart(s, i - 1) ELSE i

\* the newlines of the source the property speaks of: all of them, or those
\* not preceded by a backslash
ListNewlines(unescapedOnly) ==
    {i \in 1..Len(source) :
        /\ source[i] = "\n"
        /\ InList(i - 1)
        /\ unescapedOnly => (i = 1 \/ source[i - 1] # "\\")}

\* the token emitted for the newline at index i: a Bulletpoint at the hyphen
\* when the next non-whitespace character is a hyphen, with no Terminator in
\* the whitespace before it, and otherwise a Terminator in that whitespace
TokenAfterNewline(i) ==
    LET a == RunStart(source, i)
        e == RunEnd(source, i) + 1
        terminators == {t \in TerminatorTokens : tokens[t].Pos + 1 \in a..(e - 1)}
    IN IF e <= Len(source) /\ source[e] = "-"
       THEN /\ \E k \in BulletpointTokens : tokens[k].Pos = e - 1
            /\ terminators = {}
       ELSE terminators # {}

\* the Text token k of a list ends at the first newline of the kind the
\* property speaks of: only whitespace lies between that newline and the
\* next token
TextEndsAtNewline(k, unescapedOnly) ==
    \A i \in ListNewlines(unescapedOnly) :
        (tokens[k].Pos < i /\ i <= tokens[k + 1].Pos) =>
            \A m \in i..tokens[k + 1].Pos : IsWhitespace(source[m])

C19_ListNewline(unescapedOnly) ==
    Collected =>
        /\ \A i \in ListNewlines(unescapedOnly) : TokenAfterNewline(i)
        /\ \A k \in 1..Len(tokens) :
              (tokens[k].Typ = typeText /\ InList(tokens[k].Pos)) =>
                  TextEndsAtNewline(k, unescapedOnly)

-----------------------------------------------------------------------------
(* bullet indent *)

\* the number of consecutive space characters of s that end at index i
RECURSIVE SpacesEndingAt(_, _)
SpacesEndingAt(s, i) ==
    IF i < 1 \/ s[i] # " " THEN 0 ELSE 1 + SpacesEndingAt(s, i - 1)

\* C20: the indent of every Bulletpoint token is the number of space
\* characters between the start of its line and its hyphen, at the start of
\* the input as well as after a newline.
C20_IndentIsLeadingSpaces ==
    Collected =>
        \A k \in BulletpointTokens :
            LET spaces == SpacesEndingAt(source, tokens[k].Pos) IN
            /\ tokens[k].Pos - spaces = 0 \/ source[tokens[k].Pos - spaces] = "\n"
            /\ tokens[k].indent = spaces

-----------------------------------------------------------------------------
(* list depth *)

\* the pairs <<m, m + 1>> of consecutive Bulletpoint tokens, counted among the
\* Bulletpoint tokens, that belong to one list and whose indent widths are 2k
\* and 2k + 1 in either order
SameDepthPairs ==
    {m \in 1..(Cardinality(BulletTokens) - 1) :
        LET i == NthOf(BulletTokens, m)
            j == NthOf(BulletTokens, m + 1)
        IN /\ NoTerminatorBetween(i, j)
           /\ collectedTokens[i].indent # collectedTokens[j].indent
           /\ collectedTokens[i].indent \div 2 = collectedTokens[j].indent \div 2}

\* C21: the depth of a bullet is floor(indent / 2), so consecutive bullets of
\* indent widths 2k and 2k+1 become sibling ListItems of one List, the second
\* right after the first: no nested List is opened or closed between them.
C21_SameDepthSiblings ==
    Returned =>
        \A m \in SameDepthPairs :
            /\ Cardinality(ListItemNodes) >= m + 1
            /\ LET I == NthOf(ListItemNodes, m)
                   J == NthOf(ListItemNodes, m + 1)
               IN /\ nodes[J].parent = nodes[I].parent
                  /\ nodes[nodes[I].parent].Typ = nodeList
                  /\ ChildIndex(J) = ChildIndex(I) + 1

-----------------------------------------------------------------------------
(* token positions *)

\* the bytes of the lexer's buffer at offsets pos .. pos + n - 1 (fewer when
\* the buffer ends before)
BufferAt(pos, n) ==
    SubSeq(lexer.input, pos + 1,
           IF pos + n <= Len(lexer.input) THEN pos + n ELSE Len(lexer.input))

\* C22: the value of every Heading, Tag, OpeningSquare, ClosingSquare and
\* Bulletpoint token is what the lexer's buffer holds at the token's Pos, and
\* the buffer holds a newline at the Pos of every Terminator token.
C22_PosIsBufferOffset ==
    Collected =>
        \A k \in 1..Len(tokens) :
            /\ tokens[k].Typ \in {typeHeading, typeTag, typeOpeningSquare,
                                  typeClosingSquare, typeBulletpoint}
                  => BufferAt(tokens[k].Pos, Len(tokens[k].Val)) = tokens[k].Val
            /\ tokens[k].Typ = typeTerminator
                  => BufferAt(tokens[k].Pos, 1) = <<charNewline>>

-----------------------------------------------------------------------------
(* the blocks after a tag left open, against the same blocks parsed alone *)

\* a heading that opens a tag and never closes it, and the newline that ends
\* the heading
openTagHeading == <<".", "x", "[", "\n">>

\* a caller that parses an input whose first block leaves a tag open at its
\* Terminator and then, with the same parser, the rest of that input alone
RemainderInit ==
    /\ todo \in {<<block \o s, s>> :
                    block \in {openTagParagraph, openTagHeading},
                    s \in Lines(AfterLines, MaxAfterLines) \ {<<>>}}
    /\ source = <<>>
    /\ lexer = noLexer
    /\ nodes = <<>>
    /\ tree = 0
    /\ currentNode = 0
    /\ tagDepth = 0
    /\ collectedTokens = <<>>
    /\ tokens = <<>>
    /\ stack = <<>>
    /\ need = FALSE
    /\ failed = FALSE
    /\ other = noOther

RemainderSpec == RemainderInit /\ [][Next]_vars

\* both calls have returned: node 1 is the root of the first tree and p.tree
\* the root of the second
BothParsed == ~failed /\ stack = <<>> /\ todo = <<>> /\ tree > 1

\* the block whose tag the Terminator closed: the Error node of the tag x,
\* without children, in its Paragraph or heading
ClosedOpenTag(block) ==
    /\ block.Typ \in {nodeParagraph, nodeHeadingOne}
    /\ block.Children = <<T(nodeError, errValue(errInvalidTag, <<"x">>), <<>>)>>

\* C24: a tag still open at a Terminator is closed there, holding only what
\* came before the Terminator, and the blocks after the Terminator are the
\* blocks Parse gives for the rest of the input alone.
C24_RestParsedAsAlone ==
    BothParsed =>
        LET whole == TreeOf(1).Children
            alone == TreeOf(tree).Children
        IN /\ whole # <<>>
           /\ ClosedOpenTag(whole[1])
           /\ Tail(whole) = alone

-----------------------------------------------------------------------------
(* tagDepth *)

\* C25: whenever parseListItem begins the rich text of its ListItem, for the
\* first item of a list and for every later one, tagDepth is 0.
C25_ItemStartsAtDepthZero == atItemStart => tagDepth = 0

-----------------------------------------------------------------------------
(* node values *)

\* the heading literals of the table of parseHeading, by node kind
HeadingLiteral(typ) ==
    CASE typ = nodeHeadingOne -> nodeHeadingOneValue
      [] typ = nodeHeadingTwo -> nodeHeadingTwoValue
      [] typ = nodeHeadingThree -> nodeHeadingThreeValue
      [] typ = nodeHeadingFour -> nodeHeadingFourValue
      [] typ = nodeHeadingFive -> nodeHeadingFiveValue
      [] typ = nodeHeadingSix -> nodeHeadingSixValue

HeadingKinds ==
    {nodeHeadingOne, nodeHeadingTwo, nodeHeadingThree, nodeHeadingFour,
     nodeHeadingFive, nodeHeadingSix}

\* the values a Heading token can have: one to three of '.' and ':'
HeadingTokenValues == Strings({<<charDot>>, <<charColon>>}, 3) \ {<<>>}

\* the marker strings that do not depend on the input: the empty string, the
\* heading literals, and the two error messages, the one for a heading with
\* each of the finitely many values a Heading token can have
MarkerStrings ==
    {<<>>} \cup {HeadingLiteral(typ) : typ \in HeadingKinds}
           \cup {errInvalidTag, errInvalidHeading}
           \cup {errValue(errInvalidHeading, v) : v \in HeadingTokenValues}

\* the nodes of the returned tree that are neither Root nor Text
MarkedNodes == {n \in 1..Len(nodes) : nodes[n].Typ \notin {nodeRoot, nodeText}}

\* heading nodes carry their literal; Paragraph, List, ListItem, BoldTag and
\* ItalicTag carry the empty string
CarriesItsMarker(n) ==
    /\ nodes[n].Typ \in HeadingKinds => nodes[n].Val = HeadingLiteral(nodes[n].Typ)
    /\ nodes[n].Typ \in {nodeParagraph, nodeList, nodeListItem, nodeBoldTag, nodeItalicTag}
          => nodes[n].Val = <<>>

\* C26 (as stated): in a returned tree every node that is neither Root nor
\* Text has a value from a fixed finite set of marker strings that does not
\* depend on the input.
C26_ValuesAreMarkers ==
    Returned =>
        \A n \in MarkedNodes : CarriesItsMarker(n) /\ nodes[n].Val \in MarkerStrings

\* C26 (amended): the same for every node that is neither Root, Text nor
\* Error; the value of an Error node is one of the two error messages
\* followed by ": " and the value of a Heading token outside the table or of
\* a Tag token other than bold and italic.
C26_ValuesAreMarkersOrErrors ==
    Returned =>
        \A n \in MarkedNodes :
            /\ CarriesItsMarker(n)
            /\ nodes[n].Typ # nodeError => nodes[n].Val \in MarkerStrings
            /\ nodes[n].Typ = nodeError =>
                  \E k \in 1..Len(collectedTokens) :
                      \/ /\ collectedTokens[k].Typ = typeHeading
                         /\ collectedTokens[k].Val \notin
                                {HeadingLiteral(typ) : typ \in HeadingKinds}
                         /\ nodes[n].Val = errValue(errInvalidHeading, collectedTokens[k].Val)
                      \/ /\ collectedTokens[k].Typ = typeTag
                         /\ collectedTokens[k].Val \notin {nameBold, nameItalic}
                         /\ nodes[n].Val = errValue(errInvalidTag, collectedTokens[k].Val)

\* a tree with a heading node and the Error node of a tag has been returned
C26_Witness ==
    /\ Returned
    /\ \E n \in MarkedNodes : nodes[n].Typ \in HeadingKinds
    /\ \E n \in MarkedNodes : nodes[n].Typ = nodeError /\ IsTagNode(n)

-----------------------------------------------------------------------------
(* HighlightText: the spans between adjacent tokens *)

\* the range of one span: p.input[start:end] is defined only for
\* 0 <= start <= end <= len(p.input), and panics otherwise
sliceInRange(input, start, end) ==
    0 <= start /\ start <= end /\ end <= Len(input)

\* p.input[start:end], the bytes htmlSanitiseSlice escapes
inputSlice(input, start, end) == SubSeq(input, start + 1, end)

\* the wrapper HighlightText puts around the bytes after a token of kind typ
spanClass(typ) ==
    CASE typ = typeText -> "runic__text"
      [] typ = typeHeading -> "runic__heading"
      [] typ = typeTag -> "runic__tag"
      [] typ = typeOpeningSquare -> "runic__osq"
      [] typ = typeClosingSquare -> "runic__csq"
      [] typ = typeBulletpoint -> "runic__bulletpoint"
      [] OTHER -> "none"

\* the spans of the token loop of HighlightText over the tokens toks: the
\* first token is kept with Pos 0, every later token closes the span of the
\* token before it
HighlightSpans(toks) ==
    [i \in 1..(Len(toks) - 1) |->
        [class |-> spanClass(toks[i].Typ),
         start |-> IF i = 1 THEN 0 ELSE toks[i].Pos,
         end |-> toks[i + 1].Pos]]

\* C27: the spans of HighlightText have ranges with
\* 0 <= start <= end <= len(input), each span starts where the one before it
\* ends, together they cover the input from offset 0 to its length, and the
\* bytes of each span are those of the lexer's buffer between its offsets.
C27_SpansCoverInput ==
    Collected =>
        LET sp == HighlightSpans(tokens)
            n == Len(source)
        IN /\ \A i \in 1..Len(sp) : sliceInRange(source, sp[i].start, sp[i].end)
           /\ \A i \in 1..(Len(sp) - 1) : sp[i].end = sp[i + 1].start
           /\ n > 0 => /\ sp # <<>>
                       /\ sp[1].start = 0
                       /\ sp[Len(sp)].end = n
           /\ \A i \in 1..Len(sp) :
                 sliceInRange(source, sp[i].start, sp[i].end) =>
                     inputSlice(source, sp[i].start, sp[i].end)
                         = inputSlice(lexer.input, sp[i].start, sp[i].end)

-----------------------------------------------------------------------------
(* Html: the tree rendered as HTML.  The output is a sequence whose elements
   are the bytes of the text and, as one element each, the tag literals. *)

\* strings.TrimSpace
RECURSIVE TrimSpace(_)
TrimSpace(s) ==
    IF s = <<>> THEN s
    ELSE IF IsSpace(s[1]) THEN TrimSpace(Tail(s))
    ELSE IF IsSpace(s[Len(s)]) THEN TrimSpace(SubSeq(s, 1, Len(s) - 1))
    ELSE s

\* the first switch of toHtml: what is written before a child of kind typ
openingTag(typ) ==
    CASE typ = nodeError -> <<"<span class='error'>">>
      [] typ = nodeHeadingOne -> <<"<h1>">>
      [] typ = nodeHeadingTwo -> <<"<h2>">>
      [] typ = nodeHeadingThree -> <<"<h3>">>
      [] typ = nodeHeadingFour -> <<"<h4>">>
      [] typ = nodeHeadingFive -> <<"<h5>">>
      [] typ = nodeHeadingSix -> <<"<h6>">>
      [] typ = nodeParagraph -> <<"<p>">>
      [] typ = nodeBoldTag -> <<"<b>">>
      [] typ = nodeItalicTag -> <<"<em>">>
      [] typ = nodeList -> <<"<ul>">>
      [] typ = nodeListItem -> <<"<li>">>
      [] OTHER -> <<>>

\* the second switch of toHtml: what is written after a child of kind typ
closingTag(typ) ==
    CASE typ = nodeError -> <<"</span>">>
      [] typ = nodeHeadingOne -> <<"</h1>">>
      [] typ = nodeHeadingTwo -> <<"</h2>">>
      [] typ = nodeHeadingThree -> <<"</h3>">>
      [] typ = nodeHeadingFour -> <<"</h4>">>
      [] typ = nodeHeadingFive -> <<"</h5>">>
      [] typ = nodeHeadingSix -> <<"</h6>">>
      [] typ = nodeParagraph -> <<"</p>">>
      [] typ = nodeBoldTag -> <<"</b>", " ">>
      [] typ = nodeItalicTag -> <<"</em>", " ">>
      [] typ = nodeList -> <<"</ul>">>
      [] typ = nodeListItem -> <<"</li>">>
      [] OTHER -> <<>>

\* the loop of toHtml over the children of node from the i-th on, appending to
\* the shared string html
RECURSIVE toHtmlFrom(_, _, _)
toHtmlFrom(node, i, html) ==
    IF i > Len(node.Children) THEN html
    ELSE LET child == node.Children[i]
             opened == html \o openingTag(child.Typ)
             texted == IF child.Typ = nodeText
                       THEN opened \o child.Val \o <<" ">>
                       ELSE opened
             inner == IF Len(child.Children) > 0
                      THEN TrimSpace(toHtmlFrom(child, 1, texted))
                      ELSE texted
         IN toHtmlFrom(node, i + 1, inner \o closingTag(child.Typ))

toHtml(node, html) == toHtmlFrom(node, 1, html)

\* Html(input), once Parse has returned
Html == toHtml(TreeOf(tree), <<>>)

OpeningTags ==
    {"<span class='error'>", "<h1>", "<h2>", "<h3>", "<h4>", "<h5>", "<h6>",
     "<p>", "<b>", "<em>", "<ul>", "<li>"}

ClosingTags ==
    {"</span>", "</h1>", "</h2>", "</h3>", "</h4>", "</h5>", "</h6>",
     "</p>", "</b>", "</em>", "</ul>", "</li>"}

\* the closing tag that matches an opening tag
Matching(open) ==
    CASE open = "<span class='error'>" -> "</span>"
      [] open = "<h1>" -> "</h1>" [] open = "<h2>" -> "</h2>"
      [] open = "<h3>" -> "</h3>" [] open = "<h4>" -> "</h4>"
      [] open = "<h5>" -> "</h5>" [] open = "<h6>" -> "</h6>"
      [] open = "<p>" -> "</p>" [] open = "<b>" -> "</b>"
      [] open = "<em>" -> "</em>" [] open = "<ul>" -> "</ul>"
      [] open = "<li>" -> "</li>"

\* the wrappers of html from the i-th element on are balanced, open being the
\* opening tags not yet closed, innermost first
RECURSIVE BalancedFrom(_, _, _)
BalancedFrom(html, i, open) ==
    IF i > Len(html) THEN open = <<>>
    ELSE IF html[i] \in OpeningTags THEN BalancedFrom(html, i + 1, <<html[i]>> \o open)
    ELSE IF html[i] \in ClosingTags
         THEN /\ open # <<>>
              /\ Matching(Head(open)) = html[i]
              /\ BalancedFrom(html, i + 1, Tail(open))
    ELSE BalancedFrom(html, i + 1, open)

\* the wrappers that the subtrees of node give in depth-first order
RECURSIVE WrappersFrom(_, _)
WrappersFrom(node, i) ==
    IF i > Len(node.Children) THEN <<>>
    ELSE LET child == node.Children[i]
         IN (IF child.Typ = nodeText THEN <<>>
             ELSE <<openingTag(child.Typ)[1]>> \o WrappersFrom(child, 1)
                      \o <<closingTag(child.Typ)[1]>>)
            \o WrappersFrom(node, i + 1)

WrappersOf(html) == SelectSeq(html, LAMBDA x : x \in OpeningTags \cup ClosingTags)

\* seq holds sub as a run of consecutive elements
ContainsRun(seq, sub) ==
    \E i \in 0..(Len(seq) - Len(sub)) : SubSeq(seq, i + 1, i + Len(sub)) = sub

RECURSIVE ErrorValues(_)
ErrorValues(node) ==
    (IF node.Typ = nodeError THEN {node.Val} ELSE {})
        \cup UNION {ErrorValues(node.Children[i]) : i \in 1..Len(node.Children)}

\* the wrappers of the output are balanced and are those of the non-Text
\* nodes of the tree in depth-first order
C28_WrappersBalanced ==
    Returned =>
        /\ BalancedFrom(Html, 1, <<>>)
        /\ WrappersOf(Html) = WrappersFrom(TreeOf(tree), 1)

\* C28: Html renders the tree depth-first with one opening and one matching
\* closing wrapper per non-Text node, properly nested in tree order, and the
\* output holds the value of every Error node of the tree.
C28_HtmlRendersTree ==
    Returned =>
        /\ BalancedFrom(Html, 1, <<>>)
        /\ WrappersOf(Html) = WrappersFrom(TreeOf(tree), 1)
        /\ \A v \in ErrorValues(TreeOf(tree)) : ContainsRun(Html, v)

-----------------------------------------------------------------------------
(* the tag depth against the tag nodes that are open *)

\* the number of tag nodes among node n and its ancestors
RECURSIVE OpenTagNodes(_)
OpenTagNodes(n) ==
    IF n = 0 THEN 0
    ELSE (IF IsTagNode(n) THEN 1 ELSE 0) + OpenTagNodes(nodes[n].parent)

\* parseRichText is about to look at the current token
atRichText == at("parseRichText", "enter") \/ at("parseRichText", "loop")

\* C29: whenever parseRichText looks at a token, tagDepth is non-negative and
\* is the number of tag nodes among the current node and its ancestors; a
\* ClosingSquare that lowers tagDepth finds such a tag node open.
C29_TagDepthCountsOpenTags ==
    atRichText =>
        /\ tagDepth >= 0
        /\ tagDepth = OpenTagNodes(currentNode)
        /\ (lexer.token.Typ = typeClosingSquare /\ tagDepth > 0)
              => OpenTagNodes(currentNode) > 0

-----------------------------------------------------------------------------
(* the line of a heading *)

\* the offsets from st on at which the lexer's buffer holds a newline; with
\* unescapedOnly, only newlines that do not follow a backslash
NewlinesFrom(st, unescapedOnly) ==
    {p \in st..(Len(lexer.input) - 1) :
        /\ lexer.input[p + 1] = charNewline
        /\ unescapedOnly => (p = 0 \/ lexer.input[p] # charBackslash)}

\* the index of the first Terminator, Bulletpoint or EOF token after token k
HeadingRunEnd(k) ==
    CHOOSE j \in (k + 1)..Len(tokens) :
        /\ tokens[j].Typ \in {typeTerminator, typeBulletpoint, typeEOF}
        /\ \A i \in (k + 1)..(j - 1) :
              tokens[i].Typ \notin {typeTerminator, typeBulletpoint, typeEOF}

\* the run of Heading token k ends at the first newline after the heading:
\* the tokens of the run start before it, and the token that ends the run is
\* a Terminator that stands at that newline or at the end of the whitespace
\* that starts with it
HeadingLineEnds(k, unescapedOnly) ==
    LET N == NewlinesFrom(tokens[k].Pos + Len(tokens[k].Val), unescapedOnly) IN
    N # {} =>
        LET p == CHOOSE q \in N : \A r \in N : q <= r
            j == HeadingRunEnd(k)
        IN /\ tokens[j].Typ = typeTerminator
           /\ \A i \in (k + 1)..(j - 1) : tokens[i].Pos < p
           /\ tokens[j].Pos >= p
           /\ \A q \in p..tokens[j].Pos :
                 q < Len(lexer.input) /\ IsSpace(lexer.input[q + 1])

TokenTypes == [i \in 1..Len(tokens) |-> tokens[i].Typ]

\* C30: in the text run after a Heading token the first newline, even a
\* single one, ends the run with a Terminator, so that the heading's content
\* is the rest of its line; a heading line followed by a text line gives
\* Heading, Text, Terminator, Text.
C30_HeadingEndsAtNewline ==
    Collected =>
        /\ \A k \in HeadingTokens : HeadingLineEnds(k, FALSE)
        /\ source = exampleHeadingParagraph =>
              TokenTypes = <<typeHeading, typeText, typeTerminator, typeText, typeEOF>>

\* the same for the newlines that do not follow a backslash
C30_HeadingEndsAtUnescapedNewline ==
    Collected =>
        /\ \A k \in HeadingTokens : HeadingLineEnds(k, TRUE)
        /\ source = exampleHeadingParagraph =>
              TokenTypes = <<typeHeading, typeText, typeTerminator, typeText, typeEOF>>

-----------------------------------------------------------------------------
(* two Parse calls in two goroutines.  One goroutine runs; other holds what
   is private to the one that waits: the input it was given, its call stack
   and, once it has returned, the p.tree it returned.  With other.shared both
   call Parse on one parser and the fields of that parser are common to them;
   without it each has a parser of its own, and other holds the fields of the
   waiting one's. *)

\* a paragraph, a heading, a list item, and a paragraph with a tag
ConcInputs == {<<"a">>, <<".", "a">>, <<"-", "a">>, <<"x", "[", "a", "]">>}

\* the tree Parse returns for each of them when it runs alone
AloneTree(input) ==
    CASE input = <<"a">> ->
           T(nodeRoot, <<>>, <<T(nodeParagraph, <<>>, <<T(nodeText, <<"a">>, <<>>)>>)>>)
      [] input = <<".", "a">> ->
           T(nodeRoot, <<>>,
             <<T(nodeHeadingOne, nodeHeadingOneValue, <<T(nodeText, <<"a">>, <<>>)>>)>>)
      [] input = <<"-", "a">> ->
           T(nodeRoot, <<>>,
             <<T(nodeList, <<>>,
                 <<T(nodeListItem, <<>>, <<T(nodeText, <<"a">>, <<>>)>>)>>)>>)
      [] input = <<"x", "[", "a", "]">> ->
           T(nodeRoot, <<>>,
             <<T(nodeParagraph, <<>>,
                 <<T(nodeError, errValue(errInvalidTag, <<"x">>),
                     <<T(nodeText, <<"a">>, <<>>)>>)>>)>>)

ConcInit ==
    /\ todo \in {<<i>> : i \in ConcInputs}
    /\ source = <<>>
    /\ lexer = noLexer
    /\ nodes = <<>>
    /\ tree = 0
    /\ currentNode = 0
    /\ tagDepth = 0
    /\ collectedTokens = <<>>
    /\ tokens = <<>>
    /\ stack = <<>>
    /\ need = FALSE
    /\ failed = FALSE
    /\ other \in {[noOther EXCEPT !.shared = sh, !.todo = <<i>>] :
                     sh \in BOOLEAN, i \in ConcInputs}

\* a goroutine with nothing left to do: its Parse call has returned
finished(td, stk) == td = <<>> /\ stk = <<>>

\* the scheduler lets the other goroutine run; this happens between the
\* token-level steps of the running one, never inside a nextToken call
Switch ==
    /\ ~failed /\ ~need
    /\ ~finished(other.todo, other.stack)
    /\ todo' = other.todo
    /\ source' = other.source
    /\ stack' = other.stack
    /\ IF other.shared
       THEN /\ other' = [other EXCEPT !.todo = todo, !.source = source, !.stack = stack,
                                      !.result = IF finished(todo, stack) THEN tree ELSE 0]
            /\ UNCHANGED <<lexer, tree, currentNode, tagDepth, collectedTokens>>
       ELSE /\ other' = [other EXCEPT !.todo = todo, !.source = source, !.stack = stack,
                                      !.result = IF finished(todo, stack) THEN tree ELSE 0,
                                      !.lexer = lexer, !.tree = tree,
                                      !.currentNode = currentNode, !.tagDepth = tagDepth,
                                      !.collectedTokens = collectedTokens]
            /\ lexer' = other.lexer
            /\ tree' = other.tree
            /\ currentNode' = other.currentNode
            /\ tagDepth' = other.tagDepth
            /\ collectedTokens' = other.collectedTokens
    /\ UNCHANGED <<nodes, tokens, need, failed>>

\* the next step of the running function reads a field of *p.currentNode
\* (addNewNode, returnNode)
dereferencesCurrentNode ==
    \/ at("parseParagraph", "enter") \/ at("parseParagraph", "ret")
    \/ at("parseHeading", "enter") \/ at("parseHeading", "ret")
    \/ at("parseTag", "enter") \/ at("parseTag", "ret")
    \/ at("parseListItem", "enter") \/ at("parseListItem", "ret")
    \/ at("parseList", "enter")
    \/ at("parseList", "loop") /\ ~isOneOf({typeBulletpoint})
    \/ at("parseList", "afterItem")
          /\ isOneOf({typeBulletpoint}) /\ getListItemDepth(lexer.token) < top.depth
    \/ at("parseList", "afterNested")
          /\ isOneOf({typeBulletpoint}) /\ getListItemDepth(lexer.token) < top.depth
    \/ atRichText /\ ~isOneOf({typeBulletpoint, typeTerminator, typeEOF})
          /\ lexer.token.Typ = typeText

\* p.currentNode is nil where it is dereferenced: the program panics
NilDereference ==
    /\ currentNode = 0 /\ dereferencesCurrentNode
    /\ failed' = TRUE
    /\ UNCHANGED <<other, todo, source, lexer, nodes, tree, currentNode, tagDepth, collectedTokens,
                   tokens, stack, need>>

ConcNext ==
    \/ Switch
    \/ NilDereference
    \/ Parse
    \/ LexGlobal \/ LexText \/ LexHeading \/ LexTerminator \/ LexTag
    \/ LexOpeningSquare \/ LexClosingSquare \/ LexHypen \/ NextTokenNil
    \/ ParseGlobal \/ ParseGlobalNext
    \/ ~(currentNode = 0 /\ dereferencesCurrentNode) /\ ParseParagraph
    \/ ~(currentNode = 0 /\ dereferencesCurrentNode) /\ ParseRichText
    \/ ParseRichTextAfterTag
    \/ ~(currentNode = 0 /\ dereferencesCurrentNode) /\ ParseHeading
    \/ ~(currentNode = 0 /\ dereferencesCurrentNode) /\ ParseTag
    \/ ~(currentNode = 0 /\ dereferencesCurrentNode) /\ ParseList
    \/ ~(currentNode = 0 /\ dereferencesCurrentNode) /\ ParseListItem

ConcSpec == ConcInit /\ [][ConcNext]_vars

\* both Parse calls have returned
BothReturned ==
    /\ ~failed
    /\ finished(todo, stack) /\ finished(other.todo, other.stack)
    /\ tree # 0 /\ other.result # 0

\* C23: when two Parse calls run in two goroutines with their token-level
\* steps interleaved in any order, neither fails and each returns the tree it
\* returns for its input when it runs alone.
C23_ConcurrentParseIndependent ==
    /\ ~failed
    /\ BothReturned =>
          /\ TreeOf(tree) = AloneTree(source)
          /\ TreeOf(other.result) = AloneTree(other.source)

\* the same for two calls that are made on two parsers
C23_SeparateParsersIndependent ==
    ~other.shared =>
        /\ ~failed
        /\ BothReturned =>
              /\ TreeOf(tree) = AloneTree(source)
              /\ TreeOf(other.result) = AloneTree(other.source)

\* the trees of AloneTree are those of Parse running alone
C23_AloneTrees ==
    (Returned /\ source \in ConcInputs) => TreeOf(tree) = AloneTree(source)

-----------------------------------------------------------------------------
(* the list context of the lexer *)

\* token k is a Bulletpoint or follows one with no Terminator or EOF token from
\* that Bulletpoint up to it
InItem(k) ==
    \E j \in 1..k :
        /\ tokens[j].Typ = typeBulletpoint
        /\ \A i \in (j + 1)..k : tokens[i].Typ \notin {typeTerminator, typeEOF}

\* nextToken has just returned the last token of tokens
justEmitted == ~failed /\ tokens # <<>> /\ lexer.token = Last(tokens)

\* C31: when nextToken returns a Bulletpoint, Text, Tag, OpeningSquare,
\* ClosingSquare or Heading token, the lexer is in list context exactly if a
\* Bulletpoint token has been emitted with no Terminator since; in particular
\* it is not in list context in a paragraph or heading after a Terminator.
C31_ListContext ==
    (justEmitted /\ Last(tokens).Typ \notin {typeTerminator, typeEOF}) =>
        (lexer.ctx = ctxList <=> InItem(Len(tokens)))

\* a Text token of a paragraph has been returned after a list item with a tag
\* and the Terminator that ended it
C31_Witness ==
    /\ justEmitted
    /\ Last(tokens).Typ = typeText
    /\ ~InItem(Len(tokens))
    /\ lexer.ctx = ctxNone
    /\ \E j \in 1..Len(tokens) :
          /\ tokens[j].Typ = typeBulletpoint
          /\ \E i \in (j + 1)..Len(tokens) :
                /\ tokens[i].Typ = typeOpeningSquare
                /\ InItem(i)

-----------------------------------------------------------------------------
(* the shape of the tree *)

ChildKinds(n) == {childTyp(n, i) : i \in 1..Len(nodes[n].Children)}

InlineKinds == {nodeText, nodeBoldTag, nodeItalicTag, nodeError}

\* the kinds of children that node n may have
ShapeOK(n) ==
    CASE nodes[n].Typ = nodeRoot ->
           ChildKinds(n) \subseteq HeadingKinds \cup {nodeError, nodeParagraph, nodeList}
      [] nodes[n].Typ = nodeList -> ChildKinds(n) \subseteq {nodeListItem, nodeList}
      [] nodes[n].Typ = nodeText -> nodes[n].Children = <<>>
      [] OTHER -> ChildKinds(n) \subseteq InlineKinds

\* parseGlobal itself is running: no production is open
atTopLevel == ~failed /\ Len(stack) = 1 /\ top.fn = "parseGlobal"

\* C32: Root's children are heading, Error, Paragraph and List nodes, a List's
\* children ListItem and List nodes, the children of Paragraph, heading,
\* ListItem, tag and Error nodes Text, BoldTag, ItalicTag and Error nodes, and
\* Text nodes have no children; between two top-level productions the current
\* node is the Root, so that each production appends its one node to the Root,
\* in input order.
C32_TreeShape ==
    /\ \A n \in 1..Len(nodes) : ShapeOK(n)
    /\ atTopLevel => currentNode = tree
    /\ (atTopLevel /\ top.pc = "next") => nodes[tree].Children # <<>>

\* a tree with a Paragraph and a List under the Root, a List within the List
\* and a tag node with a Text has been returned
C32_Witness ==
    /\ Returned
    /\ {nodeParagraph, nodeList} \subseteq ChildKinds(tree)
    /\ \E n \in 1..Len(nodes) :
          nodes[n].Typ = nodeList /\ nodeList \in ChildKinds(n)
    /\ \E n \in TagNodes : nodeText \in ChildKinds(n)

-----------------------------------------------------------------------------
(* brackets that are plain text *)

\* the OpeningSquare tokens the parser has taken whose '[' has no letter
\* immediately before it in the input
LiteralOpeningSquares ==
    {k \in 1..Len(collectedTokens) :
        /\ collectedTokens[k].Typ = typeOpeningSquare
        /\ LettersEndingAt(source, collectedTokens[k].Pos) = <<>>}

Trimmed(val) == val # <<>> /\ ~IsSpace(val[1]) /\ ~IsSpace(val[Len(val)])

\* the tokens are one run of Text, OpeningSquare and ClosingSquare tokens, after
\* a Heading or Bulletpoint token or none, up to the EOF token: a single block
\* with no tag in it
OneBlockOfPlainText ==
    LET n == Len(collectedTokens) IN
    /\ n >= 2
    /\ collectedTokens[n].Typ = typeEOF
    /\ \A k \in 2..(n - 1) :
          collectedTokens[k].Typ \in {typeText, typeOpeningSquare, typeClosingSquare}
    /\ collectedTokens[1].Typ \in
          {typeText, typeOpeningSquare, typeClosingSquare, typeHeading, typeBulletpoint}

TextNodes == {n \in 1..Len(nodes) : nodes[n].Typ = nodeText}

\* C33: the '[' of an OpeningSquare token with no letter before it comes with no
\* Tag token, and a Text token before it is trimmed; in a block whose brackets
\* are all of this kind (and whose ClosingSquares are met at tag depth 0) the
\* brackets add no node and end nothing: the block is the only child of the
\* Root and all its Text tokens are merged into one Text node.
C33_LiteralBrackets ==
    Returned =>
        /\ \A k \in LiteralOpeningSquares :
              /\ k = 1 \/ collectedTokens[k - 1].Typ # typeTag
              /\ (k > 1 /\ collectedTokens[k - 1].Typ = typeText)
                    => Trimmed(collectedTokens[k - 1].Val)
        /\ OneBlockOfPlainText =>
              LET joined == TextsBetween(1, Len(collectedTokens)) IN
              /\ Len(nodes[tree].Children) = 1
              /\ TagNodes = {}
              /\ Cardinality(TextNodes) = IF joined = <<>> THEN 0 ELSE 1
              /\ FlattenText(tree) = joined

-----------------------------------------------------------------------------
(* the lexer's buffer against the caller's string *)

\* the indices at which the lexer's buffer differs from the caller's string
RewrittenAt ==
    {i \in 1..Len(source) : i <= Len(lexer.input) /\ lexer.input[i] # source[i]}

\* C34: after any number of lexer steps the lexer's buffer is as long as the
\* input, and where it differs from the input the input held a whitespace
\* character and the buffer holds a newline.
C34_BufferKeepsLength ==
    /\ Len(lexer.input) = Len(source)
    /\ \A i \in RewrittenAt :
          IsSpace(source[i]) /\ lexer.input[i] = charNewline

\* the lexer has run to the end and has rewritten a space of the input
C34_Witness ==
    /\ Collected
    /\ \E i \in RewrittenAt : source[i] = " "

-----------------------------------------------------------------------------
(* the order of the positions *)

\* C35: over the tokens emitted for an input, Pos never decreases from one
\* token to the next, every Pos lies in 0 .. len(input), and the Pos of the
\* EOF token is len(input).
C35_PosNonDecreasing ==
    /\ \A k \in 1..Len(tokens) :
          /\ 0 <= tokens[k].Pos /\ tokens[k].Pos <= Len(source)
          /\ k > 1 => tokens[k - 1].Pos <= tokens[k].Pos
    /\ Collected => Last(tokens).Typ = typeEOF /\ Last(tokens).Pos = Len(source)

-----------------------------------------------------------------------------
(* the token after a Tag *)

\* the token emitted after the k-th one, once there is one
FollowedBy(k, typ) == k < Len(tokens) /\ tokens[k + 1].Typ = typ

\* C36: in every token stream a Tag token is immediately followed by an
\* OpeningSquare token, and the Pos of that OpeningSquare is the Pos of the
\* Tag plus the length of the Tag's value.
C36_TagThenOpeningSquare ==
    \A k \in 1..Len(tokens) :
        tokens[k].Typ = typeTag =>
            /\ Collected => FollowedBy(k, typeOpeningSquare)
            /\ k < Len(tokens) =>
                  /\ tokens[k + 1].Typ = typeOpeningSquare
                  /\ tokens[k + 1].Pos = tokens[k].Pos + Len(tokens[k].Val)

-----------------------------------------------------------------------------
(* the values of the Text tokens *)

\* C37: every Text token emitted by the lexer has a non-empty value that
\* neither begins nor ends with a whitespace character, wherever the text run
\* ends; no token of type typeNone is returned to the caller.
C37_TextTokensTrimmed ==
    \A k \in 1..Len(tokens) :
        /\ tokens[k].Typ # typeNone
        /\ tokens[k].Typ = typeText =>
              /\ tokens[k].Val # <<>>
              /\ ~IsSpace(Head(tokens[k].Val))
              /\ ~IsSpace(Last(tokens[k].Val))

-----------------------------------------------------------------------------
(* the balance of addNewNode and returnNode *)

\* the number of parent links from node n up to a node without parent, -1 if
\* there is no such node within fuel links (a cycle)
RECURSIVE LinksToRoot(_, _)
LinksToRoot(n, fuel) ==
    IF nodes[n].parent = 0 THEN 0
    ELSE IF fuel = 0 THEN -1
    ELSE LET d == LinksToRoot(nodes[n].parent, fuel - 1) IN
         IF d < 0 THEN -1 ELSE d + 1

Depth(n) == LinksToRoot(n, Len(nodes))

\* the Children of node m are distinct nodes whose parent field refers to m
OwnsChildren(m) ==
    LET c == nodes[m].Children IN
    \A i \in 1..Len(c) :
        /\ nodes[c[i]].parent = m
        /\ \A j \in 1..(i - 1) : c[j] # c[i]

\* node n stands in the Children of the node its parent field refers to
InParentsChildren(n) ==
    LET c == nodes[nodes[n].parent].Children IN
    \E i \in 1..Len(c) : c[i] = n

\* the productions that add one node on entry and return it on exit
NodeProductions ==
    {"parseParagraph", "parseHeading", "parseTag", "parseList", "parseListItem"}

\* the calls on the stack that have added their node and not yet returned it
OpenProductions ==
    {i \in 1..Len(stack) : stack[i].fn \in NodeProductions /\ stack[i].pc # "enter"}

\* C38: every addNewNode is matched by one returnNode: while Parse runs the
\* current node is never nil and lies as deep under the Root as there are
\* productions open, and it is the Root again when Parse returns; every node
\* but the Root stands exactly once in the Children of its parent and in no
\* other node's Children, and the parent links lead to the Root (no cycle).
C38_NodesBalanced ==
    /\ (~failed /\ stack # <<>>) =>
          /\ currentNode # 0
          /\ Depth(currentNode) = Cardinality(OpenProductions)
    /\ Returned => currentNode = tree
    /\ \A n \in 1..Len(nodes) :
          /\ Depth(n) >= 0
          /\ nodes[n].parent = 0 <=> nodes[n].Typ = nodeRoot
          /\ nodes[n].parent # 0 => InParentsChildren(n)
          /\ OwnsChildren(n)

\* Parse has returned a tree with a node four levels under the Root, and the
\* current node is the Root
C38_Witness ==
    /\ Returned
    /\ currentNode = tree
    /\ \E n \in 1..Len(nodes) : Depth(n) >= 4

-----------------------------------------------------------------------------
(* Parse called again on a parser that has parsed before *)

MaxLaterLines == 1

\* inputs for the earlier call: they end inside open tags, inside a list or a
\* nested list, in a heading, after a closing bracket, or with a letter read
\* and no tag made of it
EarlierInputs ==
    {<<"x", "[", "a">>,
     <<"x", "[", "b", "o", "l", "d", "[", "a">>,
     <<"-", "x", "[", "a">>,
     <<"-", "a", "\n", " ", " ", "-", "a">>,
     <<" ", " ", "-", "a", "\n", "-", "a">>,
     <<".", "x", "[", "a">>,
     <<"a", "]">>,
     <<"a", "1">>,
     <<"a">>}

\* inputs for the later call
LaterInputs == Lines(AfterLines, MaxLaterLines) \cup {<<"1", "[", "a", "]">>}

\* p := New(); p.Parse(y); p.Parse(x); p.Parse(y): the first call is the one
\* on a fresh parser
RepeatInit ==
    /\ todo \in {<<y, x, y>> : x \in EarlierInputs, y \in LaterInputs}
    /\ source = <<>>
    /\ lexer = noLexer
    /\ nodes = <<>>
    /\ tree = 0
    /\ currentNode = 0
    /\ tagDepth = 0
    /\ collectedTokens = <<>>
    /\ tokens = <<>>
    /\ stack = <<>>
    /\ need = FALSE
    /\ failed = FALSE
    /\ other = noOther

RepeatSpec == RepeatInit /\ [][Next]_vars

\* the Root nodes of the trees made so far, in the order of the calls
Roots == {n \in 1..Len(nodes) : nodes[n].Typ = nodeRoot}

\* all three calls have returned
AllParsed ==
    /\ ~failed /\ stack = <<>> /\ todo = <<>>
    /\ Cardinality(Roots) = 3

\* the nodes of the trees that Parse has already returned
ReturnedNodes == {n \in 1..Len(nodes) : n < tree \/ stack = <<>>}

\* C39: Parse(y) on a parser that has already parsed an input x returns a
\* tree equal to the one a fresh parser returns for y, and no step of a later
\* call changes a node of a tree returned before.
C39_ParseRepeatable ==
    /\ [](AllParsed => TreeOf(tree) = TreeOf(1))
    /\ [][\A n \in ReturnedNodes : nodes'[n] = nodes[n]]_vars

\* the earlier call ended with a tag open, and the later input has a closing
\* bracket and has been parsed to the end
C39_Witness ==
    /\ AllParsed
    /\ \E k \in 1..Len(collectedTokens) : collectedTokens[k].Typ = typeClosingSquare
    /\ LET x == NthOf(Roots, 2) IN
         /\ \E n \in TagNodes : x < n /\ n < tree
         /\ TreeOf(x) # TreeOf(tree)

====
